---------------------------- MODULE Spec2Model ----------------------------
(***************************************************************************)
(* Model of the IR-building core of openapi-codegen: the Type Graph        *)
(* Builder (src/src/api/types.rs, from_referenced_components), the schema  *)
(* conversions it applies (Type::from_schema, FieldType::from_schema_object,*)
(* TypeData::inline_struct_enum) and the collection of its seed names from  *)
(* the resource tree (src/src/api.rs, Resource::referenced_components).     *)
(***************************************************************************)
EXTENDS Integers, Sequences, FiniteSets, TLC

(***************************************************************************)
(* Option<T> and Result<T, E>.  A panic (unwrap on None) is a third        *)
(* outcome of a conversion: it unwinds through every caller.               *)
(***************************************************************************)
None == <<>>
Some(x) == <<x>>
IsSome(o) == Len(o) = 1
IsNone(o) == Len(o) = 0
Unwrap(o) == o[1]

Ok(v) == [tag |-> "ok", val |-> v]
Err == [tag |-> "err"]
Panic == [tag |-> "panic"]
IsOk(r) == r.tag = "ok"

\* `let x = v; body`: the value is computed once and named in the body.
With(v, body(_)) == body(v)

(***************************************************************************)
(* Schema names.  Rust compares Strings bytewise; NameSeq lists the name   *)
(* universe in that order ("A" < "B" < "C" < "Data").                      *)
(***************************************************************************)
NameSeq == <<"A", "B", "C", "Data">>
Names == {NameSeq[i] : i \in DOMAIN NameSeq}
NameOrd(n) == CHOOSE i \in DOMAIN NameSeq : NameSeq[i] = n
\* The elements of a set of names, in order.
SortedSeq(S) == SelectSeq(NameSeq, LAMBDA n : n \in S)

(***************************************************************************)
(* JSON values and the schemars object model (Schema, SchemaObject,        *)
(* ObjectValidation, ArrayValidation, SubschemaValidation).                *)
(***************************************************************************)
JStr(s) == [str |-> s]
JNum(n) == [num |-> n]
JArr(a) == [arr |-> a]
IsJStr(v) == "str" \in DOMAIN v
IsJNum(v) == "num" \in DOMAIN v
IsJArr(v) == "arr" \in DOMAIN v

Single(x) == [single |-> x]
Vec(x) == [vec |-> x]
IsSingle(v) == "single" \in DOMAIN v

SchemaBool(b) == [sk |-> "bool", b |-> b]

DefaultObjectValidation ==
    [properties |-> <<>>, required |-> {}, additional_properties |-> None,
     max_properties |-> None, min_properties |-> None,
     pattern_properties |-> <<>>, property_names |-> None]

DefaultSubschemas ==
    [all_of |-> None, any_of |-> None, one_of |-> None, not |-> None,
     if_schema |-> None, then_schema |-> None, else_schema |-> None]

DefaultSchemaObject ==
    [sk |-> "object", instance_type |-> None, format |-> None,
     enum_values |-> None, const_value |-> None, reference |-> None,
     array |-> None, object |-> None, subschemas |-> None,
     x_enum_varnames |-> None, nullable |-> None]

\* A `$ref` string, split at the point where strip_prefix looks.
ComponentsPrefix == "#/components/schemas/"
Ref(prefix, name) == [prefix |-> prefix, name |-> name]

get_schema_name(maybe_ref) ==
    IF IsNone(maybe_ref) THEN None
    ELSE IF Unwrap(maybe_ref).prefix = ComponentsPrefix
         THEN Some(Unwrap(maybe_ref).name)
         ELSE None

(***************************************************************************)
(* FieldType                                                               *)
(***************************************************************************)
FtPlain(id) == [id |-> id]
FtList(inner) == [id |-> "List", inner |-> inner]
FtSet(inner) == [id |-> "Set", inner |-> inner]
FtMap(value_ty) == [id |-> "Map", value_ty |-> value_ty]
FtSchemaRef(name) == [id |-> "SchemaRef", name |-> name]
FtStringConst(value) == [id |-> "StringConst", value |-> value]

RECURSIVE FieldType_from_schema_object(_)
FieldType_from_schema_object(obj) ==
    LET \* the two ensure! lines that follow the match
        Final(result) ==
            IF IsSome(obj.const_value) \/ IsSome(obj.enum_values)
            THEN Err ELSE Ok(result)
        FromSchema(s) ==
            IF s.sk = "object" THEN FieldType_from_schema_object(s) ELSE Err
    IN
    IF IsNone(obj.instance_type) THEN
        LET n == get_schema_name(obj.reference) IN
        IF IsSome(n) THEN Final(FtSchemaRef(Unwrap(n))) ELSE Err
    ELSE IF ~IsSingle(Unwrap(obj.instance_type)) THEN Err
    ELSE
      LET ty == Unwrap(obj.instance_type).single IN
      CASE ty = "boolean" -> Final(FtPlain("Bool"))
        [] ty = "integer" ->
            IF IsNone(obj.format) THEN Err
            ELSE LET f == Unwrap(obj.format) IN
                 CASE f = "int16" -> Final(FtPlain("Int16"))
                   [] f = "uint16" -> Final(FtPlain("UInt16"))
                   [] f = "int32" -> Final(FtPlain("Int32"))
                   [] f = "uint32" -> Final(FtPlain("UInt32"))
                   [] f \in {"int", "int64"} -> Final(FtPlain("Int64"))
                   [] f \in {"uint", "uint64"} -> Final(FtPlain("UInt64"))
                   [] OTHER -> Err
        [] ty = "string" ->
            IF IsSome(obj.const_value) THEN
                IF IsJStr(Unwrap(obj.const_value))
                THEN Ok(FtStringConst(Unwrap(obj.const_value).str))
                ELSE Err
            ELSE IF IsSome(obj.enum_values) THEN
                LET values == Unwrap(obj.enum_values) IN
                IF Len(values) # 1 THEN Err
                ELSE IF IsJStr(values[1])
                     THEN Ok(FtStringConst(values[1].str))
                     ELSE Err
            ELSE IF IsNone(obj.format) THEN Final(FtPlain("String"))
            ELSE LET f == Unwrap(obj.format) IN
                 CASE f \in {"color", "email"} -> Final(FtPlain("String"))
                   [] f = "date-time" -> Final(FtPlain("DateTime"))
                   [] f = "uri" -> Final(FtPlain("Uri"))
                   [] OTHER -> Err
        [] ty = "array" ->
            IF IsNone(obj.array) THEN Err
            ELSE LET array == Unwrap(obj.array) IN
                 IF IsSome(array.additional_items) THEN Err
                 ELSE IF IsNone(array.items) THEN Err
                 ELSE IF ~IsSingle(Unwrap(array.items)) THEN Err
                 ELSE LET inner == FromSchema(Unwrap(array.items).single) IN
                      IF ~IsOk(inner) THEN inner
                      ELSE IF array.unique_items = Some(TRUE)
                           THEN Final(FtSet(inner.val))
                           ELSE Final(FtList(inner.val))
        [] ty = "object" ->
            IF IsNone(obj.object) THEN Err
            ELSE LET o == Unwrap(obj.object) IN
                 IF IsNone(o.additional_properties) THEN Err
                 ELSE IF \/ IsSome(o.max_properties)
                         \/ IsSome(o.min_properties)
                         \/ o.properties # <<>>
                         \/ o.pattern_properties # <<>>
                         \/ IsSome(o.property_names)
                         \/ o.required # {}
                      THEN Err
                 ELSE LET ap == Unwrap(o.additional_properties) IN
                      IF ap.sk = "bool"
                      THEN IF ap.b THEN Final(FtPlain("JsonObject")) ELSE Err
                      ELSE LET value_ty == FieldType_from_schema_object(ap) IN
                           IF ~IsOk(value_ty) THEN value_ty
                           ELSE Final(FtMap(value_ty.val))
        [] OTHER -> Err

FieldType_from_schema(s) ==
    IF s.sk = "object" THEN FieldType_from_schema_object(s) ELSE Err


(***************************************************************************)
(* Field, TypeData, Type                                                   *)
(***************************************************************************)
Field_from_schema(name, s, required) ==
    IF s.sk = "bool" THEN Err
    ELSE LET nullable == IF IsSome(s.nullable) /\ Unwrap(s.nullable) \in BOOLEAN
                         THEN Unwrap(s.nullable) ELSE FALSE
         IN With(FieldType_from_schema_object(s), LAMBDA ty :
            IF ~IsOk(ty) THEN ty
            ELSE Ok([name |-> name, type |-> ty.val,
                     required |-> required, nullable |-> nullable]))

EvtStruct(fields) == [type |-> "Struct", fields |-> fields]
EvtRef(schema_ref) == [type |-> "Ref", schema_ref |-> schema_ref]
SimpleVariant(name, content) == [name |-> name, content |-> content]

TdStruct(fields) == [kind |-> "struct", fields |-> fields]
TdStringEnum(values) == [kind |-> "string_enum", values |-> values]
TdIntegerEnum(variants) == [kind |-> "integer_enum", variants |-> variants]
TdStructEnum(discriminator_field, content_field, variants, fields) ==
    [kind |-> "struct_enum", discriminator_field |-> discriminator_field,
     repr |-> [repr |-> "adjacently_tagged", content_field |-> content_field,
               variants |-> variants],
     fields |-> fields]

get_schema_obj(s) ==
    IF s.sk = "bool" THEN Err ELSE Ok(s)

get_obj_validation(s) ==
    IF ~IsOk(get_schema_obj(s)) THEN Err
    ELSE IF IsNone(s.object) THEN Err
    ELSE Ok(Unwrap(s.object))

\* SameString::update that keeps the first value and accepts a different one.
SameString_update_first_wins(current, val) ==
    IF IsSome(current) THEN Ok(current) ELSE Ok(Some(val))

\* SameString::update: the first value is kept, a later different one is an error.
SameString_update(current, val) ==
    IF IsSome(current)
    THEN IF Unwrap(current) = val THEN Ok(current) ELSE Err
    ELSE Ok(Some(val))

RECURSIVE DiscriminatorLoop(_, _, _)
DiscriminatorLoop(props, i, found) ==
    IF i > Len(props) THEN Ok(found)
    ELSE LET p_name == props[i][1]
             p == props[i][2]
         IN IF ~IsOk(get_schema_obj(p)) THEN Err
            ELSE IF IsSome(p.enum_values) /\ Len(Unwrap(p.enum_values)) = 1
                 THEN IF IsJStr(Unwrap(p.enum_values)[1])
                      THEN DiscriminatorLoop(props, i + 1,
                               Some(<<p_name, Unwrap(p.enum_values)[1].str>>))
                      ELSE Err
                 ELSE DiscriminatorLoop(props, i + 1, found)

get_discriminator(obj) ==
    With(DiscriminatorLoop(obj.properties, 1, None), LAMBDA r :
    IF ~IsOk(r) THEN r
    ELSE IF IsNone(r.val) THEN Err
    ELSE Ok(Unwrap(r.val)))

RECURSIVE TypeData_from_object_schema(_, _)

RECURSIVE ContentLoop(_, _)
ContentLoop(props, i) ==
    IF i > Len(props) THEN Err
    ELSE LET p_name == props[i][1]
             p == props[i][2]
         IN IF ~IsOk(get_schema_obj(p)) THEN Err
            ELSE IF IsSome(p.object) THEN
                With(TypeData_from_object_schema(Unwrap(p.object), None),
                     LAMBDA ty :
                IF ~IsOk(ty) THEN ty
                ELSE IF ty.val.kind # "struct" THEN Err
                ELSE Ok(<<p_name, EvtStruct(ty.val.fields)>>))
            ELSE IF IsSome(p.reference) THEN
                LET n == get_schema_name(p.reference) IN
                IF IsNone(n) THEN Panic
                ELSE Ok(<<p_name, EvtRef(Some(Unwrap(n)))>>)
            ELSE ContentLoop(props, i + 1)

get_content(variant) ==
    ContentLoop(variant.properties, 1)

\* process_one_of without the check of the number of properties.
process_one_of_any_len(s, st) ==
    With(get_obj_validation(s), LAMBDA variant :
    IF ~IsOk(variant) THEN Err
    ELSE With(get_discriminator(variant.val), LAMBDA disc :
    IF ~IsOk(disc) THEN Err
    ELSE With(SameString_update(st.discriminator_field, disc.val[1]), LAMBDA d :
    IF ~IsOk(d) THEN Err
    ELSE IF Len(variant.val.properties) = 1 THEN
        Ok([discriminator_field |-> d.val,
            content_field |-> st.content_field,
            variants |-> Append(st.variants,
                                SimpleVariant(disc.val[2], EvtRef(None)))])
    ELSE With(get_content(variant.val), LAMBDA content :
    IF ~IsOk(content) THEN content
    ELSE With(SameString_update(st.content_field, content.val[1]), LAMBDA c :
    IF ~IsOk(c) THEN Err
    ELSE Ok([discriminator_field |-> d.val,
             content_field |-> c.val,
             variants |-> Append(st.variants,
                                 SimpleVariant(disc.val[2], content.val[2]))]))))))

\* The closure process_one_of: st holds discriminator_field, content_field, variants.
process_one_of(s, st) ==
    With(get_obj_validation(s), LAMBDA variant :
    IF ~IsOk(variant) THEN Err
    ELSE With(get_discriminator(variant.val), LAMBDA disc :
    IF ~IsOk(disc) THEN Err
    ELSE With(SameString_update(st.discriminator_field, disc.val[1]), LAMBDA d :
    IF ~IsOk(d) THEN Err
    ELSE IF ~(Len(variant.val.properties) \in 1..2) THEN Err
    ELSE IF Len(variant.val.properties) = 1 THEN
        Ok([discriminator_field |-> d.val,
            content_field |-> st.content_field,
            variants |-> Append(st.variants,
                                SimpleVariant(disc.val[2], EvtRef(None)))])
    ELSE With(get_content(variant.val), LAMBDA content :
    IF ~IsOk(content) THEN content
    ELSE With(SameString_update(st.content_field, content.val[1]), LAMBDA c :
    IF ~IsOk(c) THEN Err
    ELSE Ok([discriminator_field |-> d.val,
             content_field |-> c.val,
             variants |-> Append(st.variants,
                                 SimpleVariant(disc.val[2], content.val[2]))]))))))

RECURSIVE OneOfLoop(_, _, _)
OneOfLoop(one_of, idx, st) ==
    IF idx > Len(one_of) THEN Ok(st)
    ELSE With(process_one_of(one_of[idx], st), LAMBDA r :
         IF ~IsOk(r) THEN r ELSE OneOfLoop(one_of, idx + 1, r.val))

inline_struct_enum(one_of, fields) ==
    With(OneOfLoop(one_of, 1,
                   [discriminator_field |-> None, content_field |-> None,
                    variants |-> <<>>]),
         LAMBDA r :
       IF ~IsOk(r) THEN r
       ELSE IF IsNone(r.val.discriminator_field) THEN Err
       ELSE IF IsNone(r.val.content_field) THEN Err
       ELSE Ok(TdStructEnum(Unwrap(r.val.discriminator_field),
                            Unwrap(r.val.content_field),
                            r.val.variants, fields)))

TypeData_from_object_schema(obj, subschemas) ==
    IF \/ IsSome(obj.additional_properties)
       \/ IsSome(obj.max_properties)
       \/ IsSome(obj.min_properties)
       \/ obj.pattern_properties # <<>>
       \/ IsSome(obj.property_names)
    THEN Err
    ELSE
      With([i \in DOMAIN obj.properties |->
               Field_from_schema(obj.properties[i][1], obj.properties[i][2],
                                 obj.properties[i][1] \in obj.required)],
           LAMBDA rs :
      IF \E i \in DOMAIN rs : ~IsOk(rs[i]) THEN Err
      ELSE With([i \in DOMAIN rs |-> rs[i].val], LAMBDA fields :
         IF IsSome(subschemas) THEN
            LET sub == Unwrap(subschemas) IN
            IF \/ IsSome(sub.all_of) \/ IsSome(sub.any_of) \/ IsSome(sub.not)
               \/ IsSome(sub.if_schema) \/ IsSome(sub.then_schema)
               \/ IsSome(sub.else_schema)
            THEN Err
            ELSE IF IsSome(sub.one_of)
                 THEN inline_struct_enum(Unwrap(sub.one_of), fields)
                 ELSE Ok(TdStruct(fields))
         ELSE Ok(TdStruct(fields))))

from_string_enum(values) ==
    IF \E i \in DOMAIN values : ~IsJStr(values[i]) THEN Err
    ELSE Ok(TdStringEnum([i \in DOMAIN values |-> values[i].str]))

from_integer_enum(values, enum_varnames) ==
    IF \E i \in DOMAIN values : ~IsJNum(values[i]) \/ ~IsJStr(enum_varnames[i])
    THEN Err
    ELSE Ok(TdIntegerEnum([i \in DOMAIN values |->
                              <<enum_varnames[i].str, values[i].num>>]))

Type_from_schema(name, s) ==
    With( IF IsNone(s.instance_type) THEN Err
          ELSE IF ~IsSingle(Unwrap(s.instance_type)) THEN Err
          ELSE LET it == Unwrap(s.instance_type).single IN
               CASE it = "object" ->
                      TypeData_from_object_schema(
                          IF IsSome(s.object) THEN Unwrap(s.object)
                          ELSE DefaultObjectValidation,
                          s.subschemas)
                 [] it = "integer" ->
                      IF IsNone(s.x_enum_varnames) THEN Err
                      ELSE IF ~IsJArr(Unwrap(s.x_enum_varnames)) THEN Err
                      ELSE IF IsNone(s.enum_values) THEN Err
                      ELSE IF Len(Unwrap(s.x_enum_varnames).arr)
                                # Len(Unwrap(s.enum_values))
                           THEN Err
                      ELSE from_integer_enum(Unwrap(s.enum_values),
                                             Unwrap(s.x_enum_varnames).arr)
                 [] it = "string" ->
                      IF IsNone(s.enum_values) THEN Err
                      ELSE from_string_enum(Unwrap(s.enum_values))
                 [] OTHER -> Err,
         LAMBDA data :
       IF ~IsOk(data) THEN data
       ELSE Ok([name |-> name, data |-> data.val]))

(***************************************************************************)
(* Names a FieldType / a Type references                                   *)
(***************************************************************************)
RECURSIVE referenced_schema(_)
referenced_schema(ft) ==
    CASE ft.id = "SchemaRef" -> IF ft.name = "Data" THEN None ELSE Some(ft.name)
      [] ft.id \in {"List", "Set"} -> referenced_schema(ft.inner)
      [] ft.id = "Map" -> referenced_schema(ft.value_ty)
      [] OTHER -> None

fields_referenced_schemas(fields) ==
    {Unwrap(referenced_schema(fields[i].type)) :
        i \in {j \in DOMAIN fields : IsSome(referenced_schema(fields[j].type))}}

\* Iterator::find_map: the first field that references a schema.
find_map_referenced_schema(fields) ==
    LET hits == {j \in DOMAIN fields : IsSome(referenced_schema(fields[j].type))}
    IN IF hits = {} THEN None
       ELSE referenced_schema(
                fields[CHOOSE j \in hits : \A k \in hits : j <= k].type)

VariantReferenced(v) ==
    IF v.content.type = "Struct"
    THEN find_map_referenced_schema(v.content.fields)
    ELSE v.content.schema_ref

StructEnumRepr_referenced_components(repr) ==
    {Unwrap(VariantReferenced(repr.variants[i])) :
        i \in {j \in DOMAIN repr.variants :
                  IsSome(VariantReferenced(repr.variants[j]))}}

Type_referenced_components(ty) ==
    CASE ty.data.kind = "struct" -> fields_referenced_schemas(ty.data.fields)
      [] ty.data.kind = "string_enum" -> {}
      [] ty.data.kind = "integer_enum" -> {}
      [] ty.data.kind = "struct_enum" ->
            StructEnumRepr_referenced_components(ty.data.repr)
                \cup fields_referenced_schemas(ty.data.fields)

(***************************************************************************)
(* Collections: IndexMap<String, SchemaObject> as a sequence of            *)
(* <<key, value>> entries, BTreeSet<String> as a set popped in name order, *)
(* BTreeMap<String, Type> as a function.                                   *)
(***************************************************************************)
Keys(map) == {map[i][1] : i \in DOMAIN map}
IndexOf(map, key) == CHOOSE i \in DOMAIN map : map[i][1] = key
Get(map, key) == map[IndexOf(map, key)][2]

\* swap_remove that hands out the value and leaves the entry in the map.
swap_remove_keeps_entry(map, key) ==
    IF key \notin Keys(map) THEN [value |-> None, map |-> map]
    ELSE [value |-> Some(Get(map, key)), map |-> map]

\* swap_remove that hands out the value of the entry it moves into the hole.
swap_remove_last_value(map, key) ==
    IF key \notin Keys(map) THEN [value |-> None, map |-> map]
    ELSE LET i == IndexOf(map, key)
             n == Len(map)
         IN [value |-> Some(map[n][2]),
             map |-> [j \in 1..(n - 1) |-> IF j = i THEN map[n] ELSE map[j]]]

\* IndexMap::swap_remove: the removed value, and the map with the last entry
\* moved into the hole.
swap_remove(map, key) ==
    IF key \notin Keys(map) THEN [value |-> None, map |-> map]
    ELSE LET i == IndexOf(map, key)
             n == Len(map)
         IN [value |-> Some(map[i][2]),
             map |-> [j \in 1..(n - 1) |-> IF j = i THEN map[n] ELSE map[j]]]

\* pop_last in place of pop_first: the largest element.
pop_last(set) ==
    CHOOSE x \in set : \A y \in set : NameOrd(x) >= NameOrd(y)

\* BTreeSet::pop_first: the smallest element.
pop_first(set) ==
    CHOOSE x \in set : \A y \in set : NameOrd(x) <= NameOrd(y)

\* BTreeMap::insert
insert(map, key, value) ==
    [k \in (DOMAIN map) \cup {key} |-> IF k = key THEN value ELSE map[k]]

EmptyMap == [k \in {} |-> {}]

\* Vec<&str> -> BTreeSet<String>
collect(list) == {list[i] : i \in DOMAIN list}

(***************************************************************************)
(* The closure add_type of from_referenced_components: what one call does  *)
(* to the pool, the frontier and the Type map.                             *)
(***************************************************************************)
\* new_extra_components without its filter.
new_extra_components_unfiltered(ty, schema_name, types) ==
    Type_referenced_components(ty)

\* The names the new type adds to the frontier.
new_extra_components(ty, schema_name, types) ==
    {c \in Type_referenced_components(ty) :
        c # schema_name /\ c \notin DOMAIN types}

\* add_type that unwraps the removed schema: a name that is not in the pool
\* aborts the builder.
add_type_unwrap(schema_name, schemas, extra_components, types) ==
    With(swap_remove(schemas, schema_name), LAMBDA removed :
    With([schemas |-> removed.map, extra_components |-> extra_components,
          types |-> types, panicked |-> FALSE],
         LAMBDA unchanged :
       IF IsNone(removed.value) THEN [unchanged EXCEPT !.panicked = TRUE]
       ELSE IF Unwrap(removed.value).sk = "bool" THEN unchanged
       ELSE With(Type_from_schema(schema_name, Unwrap(removed.value)), LAMBDA r :
            CASE r.tag = "ok" ->
                   [schemas |-> removed.map,
                    extra_components |->
                        extra_components
                            \cup new_extra_components(r.val, schema_name, types),
                    types |-> insert(types, schema_name, r.val),
                    panicked |-> FALSE]
              [] r.tag = "err" -> unchanged
              [] r.tag = "panic" -> [unchanged EXCEPT !.panicked = TRUE])))

add_type(schema_name, schemas, extra_components, types) ==
    With(swap_remove(schemas, schema_name), LAMBDA removed :
    With([schemas |-> removed.map, extra_components |-> extra_components,
          types |-> types, panicked |-> FALSE],
         LAMBDA unchanged :
       IF IsNone(removed.value) THEN unchanged
       ELSE IF Unwrap(removed.value).sk = "bool" THEN unchanged
       ELSE With(Type_from_schema(schema_name, Unwrap(removed.value)), LAMBDA r :
            CASE r.tag = "ok" ->
                   [schemas |-> removed.map,
                    extra_components |->
                        extra_components
                            \cup new_extra_components(r.val, schema_name, types),
                    types |-> insert(types, schema_name, r.val),
                    panicked |-> FALSE]
              [] r.tag = "err" -> unchanged
              [] r.tag = "panic" -> [unchanged EXCEPT !.panicked = TRUE])))

(***************************************************************************)
(* The seed names.  Resources is a BTreeMap<String, Resource>, modelled as *)
(* the sequence of its values in key order; a Resource has a name, a Vec   *)
(* of operations and a BTreeMap of subresources; an Operation has a Vec of *)
(* query parameters (each with a FieldType) and the optional names of its  *)
(* request and response body schemas.                                      *)
(***************************************************************************)
QueryParam(name, type) == [name |-> name, type |-> type]
Operation(query_params, request_body_schema_name, response_body_schema_name) ==
    [query_params |-> query_params,
     request_body_schema_name |-> request_body_schema_name,
     response_body_schema_name |-> response_body_schema_name]
Resource(name, operations, subresources) ==
    [name |-> name, operations |-> operations, subresources |-> subresources]

\* The names one operation contributes.
Operation_referenced_components(operation) ==
    {operation.query_params[i].type.name :
        i \in {j \in DOMAIN operation.query_params :
                  operation.query_params[j].type.id = "SchemaRef"}}
    \cup collect(operation.request_body_schema_name)
    \cup collect(operation.response_body_schema_name)

RECURSIVE Resource_referenced_components(_)
Resource_referenced_components(resource) ==
    UNION {Resource_referenced_components(resource.subresources[i]) :
              i \in DOMAIN resource.subresources}
    \cup UNION {Operation_referenced_components(resource.operations[i]) :
                   i \in DOMAIN resource.operations}

\* resources.values().flat_map(Resource::referenced_components): the sets of
\* the top-level resources one after the other, each in name order.
RECURSIVE Api_referenced_components(_)
Api_referenced_components(resources) ==
    IF resources = <<>> THEN <<>>
    ELSE SortedSeq(Resource_referenced_components(Head(resources)))
            \o Api_referenced_components(Tail(resources))

IncludeModes == {"OnlyPublic", "PublicAndInternal", "OnlyInternal", "OnlySpecified"}

\* The webhook seeds kept in the mode OnlyPublic alone.
webhook_components_only_public(webhooks, include_mode) ==
    IF include_mode = "OnlyPublic" THEN webhooks ELSE <<>>

\* The seeds the webhooks contribute under an include mode.
webhook_components(webhooks, include_mode) ==
    IF include_mode \in {"OnlyPublic", "PublicAndInternal", "OnlyInternal"}
    THEN webhooks
    ELSE <<>>

\* The Vec referenced_components before the loop.
collect_referenced_components(res, webhooks, include_mode) ==
    webhook_components(webhooks, include_mode) \o Api_referenced_components(res)

(***************************************************************************)
(* Inputs                                                                  *)
(***************************************************************************)
MaxPool == 2
MaxSeeds == 2

WithType(s, it) == [s EXCEPT !.instance_type = Some(Single(it))]
RefSchema(name) ==
    [DefaultSchemaObject EXCEPT !.reference = Some(Ref(ComponentsPrefix, name))]
ForeignRefSchema(name) ==
    [DefaultSchemaObject EXCEPT !.reference = Some(Ref("other.json#/", name))]
StringSchema == WithType(DefaultSchemaObject, "string")
StringConstSchema(v) == [StringSchema EXCEPT !.enum_values = Some(<<JStr(v)>>)]
IntegerSchema == WithType(DefaultSchemaObject, "integer")
ArraySchema(items, unique) ==
    [WithType(DefaultSchemaObject, "array") EXCEPT
        !.array = Some([items |-> Some(Single(items)),
                        additional_items |-> None,
                        unique_items |-> unique])]
MapSchema(value) ==
    [WithType(DefaultSchemaObject, "object") EXCEPT
        !.object = Some([DefaultObjectValidation EXCEPT
                            !.additional_properties = Some(value)])]
ObjectSchema(props) ==
    [WithType(DefaultSchemaObject, "object") EXCEPT
        !.object = Some([DefaultObjectValidation EXCEPT !.properties = props])]
OneOfSchema(props, one_of) ==
    [ObjectSchema(props) EXCEPT
        !.subschemas = Some([DefaultSubschemas EXCEPT !.one_of = Some(one_of)])]
UnitVariant(tag) ==
    ObjectSchema(<< <<"type", StringConstSchema(tag)>> >>)
ContentVariant(tag, content) ==
    ObjectSchema(<< <<"data", content>>, <<"type", StringConstSchema(tag)>> >>)

\* The component schemas a pool entry is drawn from.
ComponentSchemas ==
    {SchemaBool(TRUE),
     RefSchema("A"),
     [StringSchema EXCEPT !.enum_values = Some(<<JStr("x"), JStr("y")>>)],
     ObjectSchema(<< <<"f", IntegerSchema>> >>),
     ObjectSchema(<< <<"f", RefSchema("B")>>,
                     <<"g", ArraySchema(RefSchema("C"), None)>> >>),
     ObjectSchema(<< <<"f", MapSchema(RefSchema("Data"))>>,
                     <<"g", ArraySchema(ArraySchema(RefSchema("A"), None),
                                        Some(TRUE))>> >>),
     OneOfSchema(<< <<"extra", RefSchema("C")>> >>,
                 <<ContentVariant("a", RefSchema("B")), UnitVariant("c")>>),
     OneOfSchema(<<>>, <<ContentVariant("a", RefSchema("Data"))>>),
     OneOfSchema(<<>>,
                 <<ContentVariant("b",
                      ObjectSchema(<< <<"x", RefSchema("B")>>,
                                      <<"y", RefSchema("C")>> >>))>>),
     OneOfSchema(<<>>, <<ContentVariant("a", ForeignRefSchema("B"))>>)}
    \cup {ObjectSchema(<< <<"f", RefSchema(t)>> >>) : t \in Names}

\* Pools of at most MaxPool entries, in name order.
Pools ==
    UNION {{[i \in 1..Cardinality(S) |-> <<SortedSeq(S)[i], f[SortedSeq(S)[i]]>>] :
               f \in [S -> ComponentSchemas]} :
           S \in {T \in SUBSET Names : Cardinality(T) <= MaxPool}}

SeedLists ==
    {SortedSeq(S) : S \in {T \in SUBSET Names : Cardinality(T) <= MaxSeeds}}

\* Inputs of the runs that compare insertion orders: pools in name order
\* over a few schemas, every reordering of a pool, and every seed list (in
\* any order, with repetitions) over a set of seed names.
OrderSchemas ==
    {[StringSchema EXCEPT !.enum_values = Some(<<JStr("x"), JStr("y")>>)],
     ObjectSchema(<< <<"f", IntegerSchema>> >>),
     ObjectSchema(<< <<"f", RefSchema("B")>>,
                     <<"g", ArraySchema(RefSchema("C"), None)>> >>),
     OneOfSchema(<<>>, <<ContentVariant("a", ForeignRefSchema("B"))>>)}

OrderPools ==
    UNION {{[i \in 1..Cardinality(S) |-> <<SortedSeq(S)[i], f[SortedSeq(S)[i]]>>] :
               f \in [S -> OrderSchemas]} :
           S \in {T \in SUBSET Names : Cardinality(T) <= MaxPool}}

Reorderings(seq) ==
    {[i \in DOMAIN seq |-> seq[p[i]]] : p \in Permutations(DOMAIN seq)}

SeedListsOf(S) ==
    {l \in UNION {[1..n -> S] : n \in 0..(MaxSeeds + 1)} : collect(l) = S}

\* Inputs of the runs that start from a resource tree.
MaxDepth == 1
MaxWebhooks == 1

\* The types FieldType::from_openapi gives the query parameters.
QueryParamSchemas ==
    {StringSchema,
     RefSchema("A"),
     ArraySchema(RefSchema("B"), None),
     MapSchema(ArraySchema(RefSchema("C"), Some(TRUE)))}
QueryParamTypes == {FieldType_from_schema(s).val : s \in QueryParamSchemas}

Operations ==
    {Operation(<<QueryParam("q", t)>>, None, None) : t \in QueryParamTypes}
    \cup {Operation(<<>>, Some("A"), Some("B")),
          Operation(<<>>, None, Some("Data"))}

OperationLists == {<<>>} \cup {<<op>> : op \in Operations}

\* A resource with at most one subresource, nested at most `depth` deep.
RECURSIVE ResourcesOfDepth(_, _)
ResourcesOfDepth(name, depth) ==
    {Resource(name, ops, <<>>) : ops \in OperationLists}
    \cup (IF depth = 0 THEN {}
          ELSE {Resource(name, ops, <<sub>>) :
                   ops \in OperationLists,
                   sub \in ResourcesOfDepth("sub", depth - 1)})

\* Top-level resources: none, one, or one followed by a leaf resource.
ResourceTrees ==
    {<<>>}
    \cup {<<r>> : r \in ResourcesOfDepth("r", MaxDepth)}
    \cup {<<r, t>> : r \in ResourcesOfDepth("r", MaxDepth),
                     t \in ResourcesOfDepth("t", 0)}

WebhookNames == {"A", "C"}
WebhookLists == UNION {[1..n -> WebhookNames] : n \in 0..MaxWebhooks}

SeedPools ==
    {<< <<"A", ObjectSchema(<< <<"f", RefSchema("B")>> >>)>>,
        <<"B", [StringSchema EXCEPT !.enum_values = Some(<<JStr("x")>>)]>>,
        <<"C", ObjectSchema(<< <<"f", StringSchema>> >>)>> >>,
     << <<"B", ObjectSchema(<< <<"f", RefSchema("A")>> >>)>>,
        <<"C", ObjectSchema(<< <<"f", IntegerSchema>> >>)>> >>,
     << <<"A", OneOfSchema(<<>>, <<ContentVariant("a", ForeignRefSchema("B"))>>)>>,
        <<"C", ObjectSchema(<< <<"f", StringSchema>> >>)>> >>}

\* Inputs of the runs that convert one schema with a oneOf list: the
\* variants a oneOf entry is drawn from, the enclosing object's own
\* properties, and a few object schemas without oneOf.
MaxVariants == 3

PropsVariant(props) == ObjectSchema(props)

\* A string schema with the keyword const.
ConstKeywordSchema(v) == [StringSchema EXCEPT !.const_value = Some(JStr(v))]

\* The list {type: "a", data: $ref B}, {type: "b", data: {x}}, {type: "c"},
\* its tags written as single-value enums and with the keyword const.
ExampleOneOf ==
    <<ContentVariant("a", RefSchema("B")),
      ContentVariant("b", ObjectSchema(<< <<"x", StringSchema>> >>)),
      UnitVariant("c")>>

ConstExampleOneOf ==
    <<PropsVariant(<< <<"data", RefSchema("B")>>,
                      <<"type", ConstKeywordSchema("a")>> >>),
      PropsVariant(<< <<"data", ObjectSchema(<< <<"x", StringSchema>> >>)>>,
                      <<"type", ConstKeywordSchema("b")>> >>),
      PropsVariant(<< <<"type", ConstKeywordSchema("c")>> >>)>>

VariantSchemas ==
    {ContentVariant("a", RefSchema("B")),
     ContentVariant("b", ObjectSchema(<< <<"x", StringSchema>> >>)),
     UnitVariant("c"),
     PropsVariant(<< <<"kind", StringConstSchema("d")>> >>),
     PropsVariant(<< <<"data", RefSchema("B")>>,
                     <<"kind", StringConstSchema("d")>> >>),
     PropsVariant(<< <<"payload", RefSchema("C")>>,
                     <<"type", StringConstSchema("e")>> >>),
     PropsVariant(<< <<"data", RefSchema("B")>>,
                     <<"type", StringConstSchema("f")>>,
                     <<"z", StringSchema>> >>),
     ContentVariant("g", StringSchema),
     ContentVariant("h", ArraySchema(RefSchema("B"), None)),
     ContentVariant("i", SchemaBool(TRUE)),
     ContentVariant("j", ObjectSchema(<< <<"x", IntegerSchema>> >>)),
     PropsVariant(<< <<"data", RefSchema("B")>> >>),
     PropsVariant(<< <<"type", ConstKeywordSchema("k")>> >>),
     ContentVariant("l", ForeignRefSchema("B"))}

OneOfLists ==
    UNION {[1..n -> VariantSchemas] : n \in 1..MaxVariants}
        \cup {ExampleOneOf, ConstExampleOneOf}

OwnProperties ==
    {<<>>,
     << <<"extra", RefSchema("C")>> >>,
     << <<"tag", StringConstSchema("t")>> >>}

EnumSchemas ==
    {OneOfSchema(props, one_of) : props \in OwnProperties, one_of \in OneOfLists}
    \cup {ObjectSchema(<< <<"f", StringSchema>> >>),
          ObjectSchema(<< <<"kind", StringConstSchema("x")>> >>),
          ObjectSchema(<< <<"tags", ArraySchema(StringConstSchema("x"), None)>> >>),
          ObjectSchema(<< <<"m", MapSchema(ConstKeywordSchema("k"))>> >>)}

(***************************************************************************)
(* The resource tree: Api::new, get_or_insert_resource, merge_resources    *)
(***************************************************************************)
\* Resource::new
Resource_new(name) == Resource(name, <<>>, EmptyMap)

\* get_or_insert_resource that names a subresource by its own key.
RECURSIVE entry_or_insert_key_name(_, _, _, _)
entry_or_insert_key_name(map, path, i, name) ==
    LET r == IF path[i] \in DOMAIN map THEN map[path[i]] ELSE Resource_new(path[i])
    IN IF i = Len(path) THEN insert(map, path[i], r)
       ELSE insert(map, path[i],
                   [r EXCEPT !.subresources =
                       entry_or_insert_key_name(r.subresources, path, i + 1,
                                                path[i + 1])])

\* The walk of get_or_insert_resource from the segment i of the path: the
\* entry of the segment in the map, inserted as a new Resource with the name
\* built so far when it is vacant, and the same walk in its subresources.
RECURSIVE entry_or_insert(_, _, _, _)
entry_or_insert(map, path, i, name) ==
    LET r == IF path[i] \in DOMAIN map THEN map[path[i]] ELSE Resource_new(name)
    IN IF i = Len(path) THEN insert(map, path[i], r)
       ELSE insert(map, path[i],
                   [r EXCEPT !.subresources =
                       entry_or_insert(r.subresources, path, i + 1,
                                       name \o "-" \o path[i + 1])])

\* The resources after get_or_insert_resource(&mut resources, path).
get_or_insert_resource(resources, path) ==
    entry_or_insert(resources, path, 1, path[1])

\* resource.operations.push(op) on the Resource that
\* get_or_insert_resource(&mut resources, path) returned.
RECURSIVE operations_push(_, _, _, _)
operations_push(map, path, i, op) ==
    IF i = Len(path)
    THEN [map EXCEPT ![path[i]].operations = Append(@, op)]
    ELSE [map EXCEPT ![path[i]].subresources =
              operations_push(@, path, i + 1, op)]

\* merge_resources as BTreeMap::extend would do it: an occupied entry is
\* replaced by the Resource of src.
merge_resources_overwrite(dst, src) ==
    Ok([k \in DOMAIN dst \cup DOMAIN src |->
           IF k \in DOMAIN src THEN src[k] ELSE dst[k]])

\* merge_resources(dst, src): Ok with the merged map, or the panic of
\* assert_eq!(name, dst_r.name).
RECURSIVE merge_resources(_, _)
merge_resources(dst, src) ==
    LET entry(k) ==
            IF k \notin DOMAIN src THEN Ok(dst[k])
            ELSE IF k \notin DOMAIN dst THEN Ok(src[k])
            ELSE IF src[k].name # dst[k].name THEN Panic
            ELSE With(merge_resources(dst[k].subresources, src[k].subresources),
                      LAMBDA sub :
                 IF ~IsOk(sub) THEN Panic
                 ELSE Ok(Resource(dst[k].name,
                                  dst[k].operations \o src[k].operations,
                                  sub.val)))
    IN IF \E k \in DOMAIN src : ~IsOk(entry(k)) THEN Panic
       ELSE Ok([k \in DOMAIN dst \cup DOMAIN src |-> entry(k).val])

(***************************************************************************)
(* Operation::from_openapi (src/src/api.rs).  A String that is split is    *)
(* the sequence of its pieces: a piece is "." or a run of other            *)
(* characters.  ReferenceOr<T> is [ref |-> TRUE] or [ref |-> FALSE, item]. *)
(* The outcome is Ok(Some(<<res_path, operation>>)), Ok(None) for an        *)
(* operation that is skipped, or Panic.  The fields description,           *)
(* deprecated and path, which are copied from the input, are left out.     *)
(***************************************************************************)
Reference == [ref |-> TRUE]
Item(x) == [ref |-> FALSE, item |-> x]

\* str::split('.')
RECURSIVE split_from(_, _, _, _)
split_from(s, i, parts, current) ==
    IF i > Len(s) THEN Append(parts, current)
    ELSE IF s[i] = "." THEN split_from(s, i + 1, Append(parts, current), "")
    ELSE split_from(s, i + 1, parts, current \o s[i])

split(s) == split_from(s, 1, <<>>, "")

\* openapi::ParameterSchemaOrContent
ParameterSchema(s) == [is_schema |-> TRUE, json_schema |-> s]
ParameterContent == [is_schema |-> FALSE]

enforce_string_parameter(parameter_data) ==
    IF ~parameter_data.format.is_schema THEN Err
    ELSE IF parameter_data.format.json_schema.sk # "object" THEN Err
    ELSE IF parameter_data.format.json_schema.instance_type # Some(Single("string"))
    THEN Err
    ELSE Ok(TRUE)

\* FieldType::from_openapi
FieldType_from_openapi(format) ==
    IF ~format.is_schema THEN Err ELSE FieldType_from_schema(format.json_schema)

HeaderParam(name, required) == [name |-> name, required |-> required]

\* The loop with get_if_exists kept as a query parameter on every method.
RECURSIVE ParametersLoop_keeps_get_if_exists(_, _, _, _)
ParametersLoop_keeps_get_if_exists(method, parameters, i, acc) ==
    IF i > Len(parameters) THEN Ok(Some(acc))
    ELSE IF parameters[i].ref THEN Ok(None)
    ELSE LET p == parameters[i].item IN
      CASE p.kind = "path" /\ p.style = "simple" ->
              IF ~p.required THEN Panic
              ELSE IF ~IsOk(enforce_string_parameter(p)) THEN Ok(None)
              ELSE ParametersLoop_keeps_get_if_exists(method, parameters, i + 1,
                       [acc EXCEPT !.path_params = Append(@, p.name)])
        [] p.kind = "header" /\ p.style = "simple" ->
              IF ~IsOk(enforce_string_parameter(p)) THEN Ok(None)
              ELSE ParametersLoop_keeps_get_if_exists(method, parameters, i + 1,
                       [acc EXCEPT !.header_params =
                           Append(@, HeaderParam(p.name, p.required))])
        [] /\ p.kind = "query" /\ ~p.allow_reserved /\ p.style = "form"
           /\ IsNone(p.allow_empty_value) ->
              With(FieldType_from_openapi(p.format), LAMBDA type :
                   IF ~IsOk(type) THEN Ok(None)
                   ELSE ParametersLoop_keeps_get_if_exists(method, parameters, i + 1,
                            [acc EXCEPT !.query_params =
                                Append(@, QueryParam(p.name, type.val))]))
        [] OTHER -> Ok(None)

\* The loop over op.parameters from the parameter i on; acc holds
\* path_params, header_params and query_params.
RECURSIVE ParametersLoop(_, _, _, _)
ParametersLoop(method, parameters, i, acc) ==
    IF i > Len(parameters) THEN Ok(Some(acc))
    ELSE IF parameters[i].ref THEN Ok(None)
    ELSE LET p == parameters[i].item IN
      CASE p.kind = "path" /\ p.style = "simple" ->
              IF ~p.required THEN Panic
              ELSE IF ~IsOk(enforce_string_parameter(p)) THEN Ok(None)
              ELSE ParametersLoop(method, parameters, i + 1,
                       [acc EXCEPT !.path_params = Append(@, p.name)])
        [] p.kind = "header" /\ p.style = "simple" ->
              IF ~IsOk(enforce_string_parameter(p)) THEN Ok(None)
              ELSE ParametersLoop(method, parameters, i + 1,
                       [acc EXCEPT !.header_params =
                           Append(@, HeaderParam(p.name, p.required))])
        [] /\ p.kind = "query" /\ ~p.allow_reserved /\ p.style = "form"
           /\ IsNone(p.allow_empty_value) ->
              IF method = "post" /\ p.name = "get_if_exists"
              THEN ParametersLoop(method, parameters, i + 1, acc)
              ELSE With(FieldType_from_openapi(p.format), LAMBDA type :
                   IF ~IsOk(type) THEN Ok(None)
                   ELSE ParametersLoop(method, parameters, i + 1,
                            [acc EXCEPT !.query_params =
                                Append(@, QueryParam(p.name, type.val))]))
        [] OTHER -> Ok(None)

JsonMediaType == "application/json"

\* The closure that computes request_body_all_optional.
request_body_all_optional(request_body, component_schemas) ==
    IF IsNone(request_body) THEN Ok(FALSE)
    ELSE IF Unwrap(request_body).ref THEN Panic
    ELSE LET body == Unwrap(request_body).item IN
      IF JsonMediaType \notin Keys(body.content) THEN Ok(FALSE)
      ELSE LET mt == Get(body.content, JsonMediaType) IN
        IF IsNone(mt.schema) THEN Ok(FALSE)
        ELSE LET s == Unwrap(mt.schema) IN
          IF s.sk = "object" /\ IsSome(s.object)
          THEN Ok(Unwrap(s.object).required = {})
          ELSE IF s.sk = "object" /\ IsSome(s.reference)
          THEN LET n == get_schema_name(s.reference) IN
               IF IsNone(n) THEN Panic
               ELSE IF /\ Unwrap(n) \in Keys(component_schemas)
                       /\ Get(component_schemas, Unwrap(n)).sk = "object"
                       /\ IsSome(Get(component_schemas, Unwrap(n)).object)
               THEN Ok(Unwrap(Get(component_schemas, Unwrap(n)).object).required = {})
               ELSE Panic
          ELSE Ok(FALSE)

\* The schema name of a body with exactly one content, application/json.
json_body_schema_name(body) ==
    IF body.extensions # <<>> THEN Panic
    ELSE IF Len(body.content) # 1 THEN Panic
    ELSE IF JsonMediaType \notin Keys(body.content) THEN Panic
    ELSE LET json_body == Get(body.content, JsonMediaType) IN
      IF json_body.extensions # <<>> THEN Panic
      ELSE IF IsNone(json_body.schema) THEN Panic
      ELSE IF Unwrap(json_body.schema).sk = "bool" THEN Ok(None)
      ELSE Ok(get_schema_name(Unwrap(json_body.schema).reference))

\* The closure that computes request_body_schema_name.
request_body_schema_name(request_body) ==
    IF IsNone(request_body) THEN Ok(None)
    ELSE IF Unwrap(request_body).ref THEN Ok(None)
    ELSE IF ~Unwrap(request_body).item.required THEN Panic
    ELSE json_body_schema_name(Unwrap(request_body).item)

response_body_schema_name(resp) ==
    IF resp.ref THEN Ok(None)
    ELSE IF resp.item.extensions # <<>> THEN Panic
    ELSE IF resp.item.content = <<>> THEN Ok(None)
    ELSE json_body_schema_name(resp.item)

\* openapi::StatusCode
Code(c) == [code |-> c]
Range(r) == [range |-> r]

IsSuccess(st) == "code" \in DOMAIN st /\ st.code >= 200 /\ st.code < 300

\* The name of the first success response, the others not compared with it.
responses_schema_name_first(responses) ==
    IF IsNone(responses) THEN Ok(None)
    ELSE LET r == Unwrap(responses) IN
      IF IsSome(r.default) THEN Panic
      ELSE IF r.extensions # <<>> THEN Panic
      ELSE With(SelectSeq(r.responses, LAMBDA e : IsSuccess(e[1])),
                LAMBDA success_responses :
        IF success_responses = <<>> THEN Panic
        ELSE response_body_schema_name(success_responses[1][2]))

\* The closure that computes the operation's response_body_schema_name.
responses_schema_name(responses) ==
    IF IsNone(responses) THEN Ok(None)
    ELSE LET r == Unwrap(responses) IN
      IF IsSome(r.default) THEN Panic
      ELSE IF r.extensions # <<>> THEN Panic
      ELSE With(SelectSeq(r.responses, LAMBDA e : IsSuccess(e[1])),
                LAMBDA success_responses :
        IF success_responses = <<>> THEN Panic
        ELSE With([i \in DOMAIN success_responses |->
                      response_body_schema_name(success_responses[i][2])],
                  LAMBDA names :
          IF \E i \in DOMAIN names : ~IsOk(names[i]) THEN Panic
          ELSE IF \E i \in DOMAIN names : names[i] # names[1] THEN Panic
          ELSE names[1]))

ExtractedOperation(id, name, method, params, request_body_name, all_optional, response_body_name) ==
    [id |-> id, name |-> name, method |-> method,
     path_params |-> params.path_params,
     header_params |-> params.header_params,
     query_params |-> params.query_params,
     request_body_schema_name |-> request_body_name,
     request_body_all_optional |-> all_optional,
     response_body_schema_name |-> response_body_name]

\* The pieces of the ID with the last left in the resource path.
res_path_keeps_op_name(parts) == SubSeq(parts, 2, Len(parts))

\* What is left of the pieces of the ID after next() and next_back().
res_path(parts) == SubSeq(parts, 2, Len(parts) - 1)

Operation_from_openapi(method, op, component_schemas, include_hidden) ==
    IF IsNone(op.operation_id) THEN Ok(None)
    ELSE IF ~include_hidden /\ op.x_hidden THEN Ok(None)
    ELSE With(split(Unwrap(op.operation_id)), LAMBDA parts :
      IF Len(parts) < 2 THEN Ok(None)
      ELSE IF res_path(parts) = <<>> THEN Ok(None)
      ELSE IF parts[1] # "v1" THEN Ok(None)
      ELSE With(ParametersLoop(method, op.parameters, 1,
                    [path_params |-> <<>>, header_params |-> <<>>,
                     query_params |-> <<>>]),
                LAMBDA params :
        IF ~IsOk(params) THEN Panic
        ELSE IF IsNone(params.val) THEN Ok(None)
        ELSE With(request_body_all_optional(op.request_body, component_schemas),
                  LAMBDA all_optional :
          IF ~IsOk(all_optional) THEN Panic
          ELSE With(request_body_schema_name(op.request_body),
                    LAMBDA request_body_name :
            IF ~IsOk(request_body_name) THEN Panic
            ELSE With(responses_schema_name(op.responses),
                      LAMBDA response_body_name :
              IF ~IsOk(response_body_name) THEN Panic
              ELSE Ok(Some(<<res_path(parts),
                             ExtractedOperation(Unwrap(op.operation_id),
                                 parts[Len(parts)], method, Unwrap(params.val),
                                 request_body_name.val, all_optional.val,
                                 response_body_name.val)>>)))))))

\* Inputs of the resource extraction: the operations of the path items, each
\* with its method and the include_hidden flag of the run.
MaxOps == 2
MaxApis == 2

OperationIds ==
    {<<"v1", ".", "message_attempt", ".", "endpoint", ".", "resend">>,
     <<"v1", ".", "message_attempt", ".", "list">>,
     <<"v1", ".", "endpoint", ".", "get">>,
     <<"v1", ".", "list">>,
     <<"health">>,
     <<"v2", ".", "endpoint", ".", "get">>,
     <<"v1", ".", ".", "get">>}

\* openapi::MediaType, RequestBody, Response, Responses
MediaType(schema) == [schema |-> schema, extensions |-> <<>>]

JsonContent(s) == << <<JsonMediaType, MediaType(Some(s))>> >>

RequestBody(content, required) ==
    [content |-> content, required |-> required, extensions |-> <<>>]

Response(content) == [content |-> content, extensions |-> <<>>]

Responses(responses, default) ==
    [responses |-> responses, default |-> default, extensions |-> <<>>]

JsonResponse(name) == Item(Response(JsonContent(RefSchema(name))))

\* openapi::Parameter with its ParameterData
Parameter(kind, style, name, required, format) ==
    Item([kind |-> kind, style |-> style, name |-> name, required |-> required,
          format |-> format, allow_reserved |-> FALSE,
          allow_empty_value |-> None])

PathParameter(name) ==
    Parameter("path", "simple", name, TRUE, ParameterSchema(StringSchema))

OpenapiOperation(operation_id, x_hidden, parameters, request_body, responses) ==
    [operation_id |-> operation_id, x_hidden |-> x_hidden,
     parameters |-> parameters, request_body |-> request_body,
     responses |-> responses]

OkResponses == Some(Responses(<< <<Code(200), JsonResponse("A")>> >>, None))

BaseId == <<"v1", ".", "endpoint", ".", "get">>

ParameterLists ==
    {<<Reference>>,
     <<PathParameter("b_id"), PathParameter("a_id")>>,
     <<PathParameter("a_id"), Reference>>,
     <<PathParameter("a_id"),
       Parameter("path", "simple", "b_id", FALSE, ParameterSchema(StringSchema))>>,
     <<Parameter("path", "simple", "a_id", TRUE, ParameterSchema(IntegerSchema))>>,
     <<Parameter("path", "simple", "a_id", TRUE, ParameterContent)>>,
     <<Parameter("path", "matrix", "a_id", TRUE, ParameterSchema(StringSchema))>>,
     <<Parameter("header", "simple", "idempotency-key", FALSE,
                 ParameterSchema(StringSchema))>>,
     <<Parameter("query", "form", "limit", FALSE, ParameterSchema(StringSchema))>>,
     <<Parameter("query", "form", "limit", FALSE, ParameterContent)>>,
     <<Parameter("query", "form", "get_if_exists", FALSE,
                 ParameterSchema(StringSchema))>>,
     <<Parameter("cookie", "form", "session", FALSE, ParameterSchema(StringSchema))>>}

RequestBodies ==
    {Reference,
     Item(RequestBody(JsonContent(RefSchema("A")), TRUE)),
     Item(RequestBody(JsonContent(RefSchema("A")), FALSE))}

ResponseLists ==
    {<< <<Code(200), JsonResponse("A")>>, <<Code(201), JsonResponse("A")>> >>,
     << <<Code(200), JsonResponse("A")>>, <<Code(201), JsonResponse("B")>> >>,
     << <<Code(200), JsonResponse("A")>>, <<Code(204), Item(Response(<<>>))>> >>,
     << <<Code(200), JsonResponse("A")>>, <<Code(404), JsonResponse("B")>> >>,
     << <<Code(404), JsonResponse("B")>>, <<Code(200), Item(Response(<<>>))>> >>,
     << <<Code(200), Reference>> >>,
     << <<Code(200), Reference>>, <<Code(201), JsonResponse("A")>> >>,
     << <<Code(404), JsonResponse("B")>> >>,
     << <<Range(2), JsonResponse("B")>>, <<Code(200), JsonResponse("A")>> >>}

OpenapiOperations ==
    {OpenapiOperation(Some(id), FALSE, <<>>, None, OkResponses) : id \in OperationIds}
    \cup {OpenapiOperation(None, FALSE, <<>>, None, OkResponses),
          OpenapiOperation(Some(BaseId), TRUE, <<>>, None, OkResponses),
          OpenapiOperation(Some(BaseId), FALSE, <<>>, None, None),
          OpenapiOperation(Some(BaseId), FALSE, <<>>, None,
              Some(Responses(<< <<Code(200), JsonResponse("A")>> >>,
                             Some(JsonResponse("B")))))}
    \cup {OpenapiOperation(Some(BaseId), FALSE, ps, None, OkResponses) :
             ps \in ParameterLists}
    \cup {OpenapiOperation(Some(BaseId), FALSE, <<>>, Some(b), OkResponses) :
             b \in RequestBodies}
    \cup {OpenapiOperation(Some(BaseId), FALSE, <<>>, None,
                           Some(Responses(rs, None))) : rs \in ResponseLists}

\* A query parameter of the style form with its allow_empty_value.
QueryParameter(name, format, allow_empty_value) ==
    Item([kind |-> "query", style |-> "form", name |-> name, required |-> FALSE,
          format |-> format, allow_reserved |-> FALSE,
          allow_empty_value |-> allow_empty_value])

\* Parameter lists of POST operations with a get_if_exists parameter.
GetIfExistsLists ==
    {<<QueryParameter("get_if_exists", ParameterSchema(StringSchema), None),
       QueryParameter("limit", ParameterSchema(StringSchema), None)>>,
     <<QueryParameter("get_if_exists", ParameterContent, None)>>,
     <<QueryParameter("get_if_exists", ParameterSchema(StringSchema), Some(TRUE))>>,
     <<QueryParameter("get_if_exists", ParameterSchema(StringSchema), None),
       Reference>>}

OperationInputs ==
    {[method |-> "get", op |-> op, include_hidden |-> FALSE] :
        op \in OpenapiOperations}
    \cup {[method |-> "post", include_hidden |-> TRUE,
           op |-> OpenapiOperation(Some(BaseId), h, ps, None, OkResponses)] :
             h \in BOOLEAN,
             ps \in {<<>>, <<Parameter("query", "form", "get_if_exists", FALSE,
                                       ParameterSchema(StringSchema))>>}}
    \cup {[method |-> "post", include_hidden |-> FALSE,
           op |-> OpenapiOperation(Some(BaseId), FALSE, ps, None, OkResponses)] :
             ps \in GetIfExistsLists}

\* The component schemas of the document the operations are taken from.
ComponentPool == << <<"A", ObjectSchema(<< <<"f", StringSchema>> >>)>> >>

(***************************************************************************)
(* State                                                                   *)
(***************************************************************************)
VARIABLES
    input,                  \* the arguments of the run: schemas, res, webhooks,
                            \* include_mode (fixed during a run)
    referenced_components,  \* Vec<&str>: the seed names, in collection order
    schemas,                \* the pool: IndexMap<String, SchemaObject>
    extra_components,       \* the frontier: BTreeSet<String>
    types,                  \* BTreeMap<String, Type>
    popped,                 \* the values the loop variable `c` has taken, in order
    pc,                     \* "idle" | "loop" | "done" | "panicked" | "paths"
    prev,                   \* the outcome of the previous run on the same input
    resources,              \* BTreeMap<String, Resource> that Api::new fills
    api,                    \* the resources of the Api that from_iter collects
    processed,              \* the operations Api::new has looked at, in order
    merged,                 \* the number of Apis merged into api
    call,                   \* the function that is called, with its arguments
    ret,                    \* what the call has returned (None while it runs)
    fs,                     \* the paths of the files that exist on disk
    generated_paths,        \* Vec<Utf8PathBuf>: the files generate has written
    postprocessor,          \* Option<Postprocessor>, with the position of the
                            \* loop over its commands
    spawned,                \* the processes and containers started, in order
    warnings,               \* the tracing::warn! lines of the process, in order
    NOT_FOUND_LOGGED_FOR,   \* static Mutex<BTreeSet<&str>>
    buf,                    \* the String that parse_frontmatter reads lines into
    cursor                  \* the number of lines read from its input

builder_vars == <<input, referenced_components, schemas, extra_components,
                  types, popped, prev>>

extraction_vars == <<resources, api, processed, merged>>

call_vars == <<call, ret>>

reader_vars == <<buf, cursor>>

postprocessing_vars == <<fs, generated_paths, postprocessor, spawned, warnings,
                         NOT_FOUND_LOGGED_FOR>>

\* The variables outside the Type Graph Builder, outside the extraction and
\* outside a call that only returns a value.
outside_builder == <<extraction_vars, call_vars, postprocessing_vars, reader_vars>>
outside_extraction == <<builder_vars, call_vars, postprocessing_vars, reader_vars>>
outside_call ==
    <<builder_vars, pc, extraction_vars, postprocessing_vars, reader_vars>>

vars == <<input, referenced_components, schemas, extra_components, types,
          popped, pc, prev, resources, api, processed, merged, call, ret,
          fs, generated_paths, postprocessor, spawned, warnings,
          NOT_FOUND_LOGGED_FOR, buf, cursor>>

EmptyResources == <<>>

\* Before the builder is called.
Idle ==
    /\ input = [schemas |-> <<>>, res |-> EmptyResources,
                webhooks |-> <<>>, include_mode |-> "OnlyPublic"]
    /\ referenced_components = <<>>
    /\ schemas = <<>>
    /\ extra_components = {}
    /\ types = EmptyMap
    /\ popped = <<>>
    /\ pc = "idle"
    /\ prev = None
    /\ resources = EmptyMap
    /\ api = EmptyMap
    /\ processed = <<>>
    /\ merged = 0
    /\ fs = {}
    /\ generated_paths = <<>>
    /\ postprocessor = None
    /\ spawned = <<>>
    /\ warnings = <<>>
    /\ NOT_FOUND_LOGGED_FOR = {}
    /\ buf = <<>>
    /\ cursor = 0

Init ==
    /\ Idle
    /\ call = None
    /\ ret = None

\* from_referenced_components(res, schemas, webhooks, include_mode) is
\* entered: the seed names are collected from the webhooks and the resource
\* tree, the Type map starts empty and the seed names are collected into the
\* frontier.
Enter(pool, res, webhooks, include_mode) ==
    /\ input' = [schemas |-> pool, res |-> res,
                 webhooks |-> webhooks, include_mode |-> include_mode]
    /\ schemas' = pool
    /\ \E seeds \in {collect_referenced_components(res, webhooks, include_mode)} :
          /\ referenced_components' = seeds
          /\ extra_components' = collect(seeds)
    /\ types' = EmptyMap
    /\ popped' = <<>>
    /\ pc' = "loop"
    /\ UNCHANGED outside_builder

\* A run whose seed names all come from the webhook list.
Start ==
    /\ pc = "idle"
    /\ \E pool \in Pools, seeds \in SeedLists :
          Enter(pool, EmptyResources, seeds, "OnlyPublic")
    /\ UNCHANGED prev

\* The first of two runs on the same pool and seed set.
StartOrder ==
    /\ pc = "idle"
    /\ \E pool \in OrderPools, seeds \in SeedLists :
          Enter(pool, EmptyResources, seeds, "OnlyPublic")
    /\ UNCHANGED prev

\* The second run: the outcome of the first is kept, and the builder is
\* entered again with the same pool in another insertion order and the same
\* seed names in another order, possibly repeated.
Rerun ==
    /\ pc \in {"done", "panicked"}
    /\ prev = None
    /\ prev' = Some([pc |-> pc, types |-> types, popped |-> popped])
    /\ \E pool \in Reorderings(input.schemas),
          seeds \in SeedListsOf(collect(input.webhooks)) :
          Enter(pool, EmptyResources, seeds, "OnlyPublic")

\* A run that Api::new starts from a resource tree and a webhook list.
StartApi ==
    /\ pc = "idle"
    /\ \E pool \in SeedPools, res \in ResourceTrees,
          webhooks \in WebhookLists, include_mode \in IncludeModes :
          Enter(pool, res, webhooks, include_mode)
    /\ UNCHANGED prev

\* A run on a pool that holds one schema, named by the only seed.
StartEnum ==
    /\ pc = "idle"
    /\ \E s \in EnumSchemas :
          Enter(<< <<"A", s>> >>, EmptyResources, <<"A">>, "OnlyPublic")
    /\ UNCHANGED prev

\* One iteration of `while let Some(c) = extra_components.pop_first()`.
PopAndAddType ==
    /\ pc = "loop"
    /\ extra_components # {}
    /\ \E c \in {pop_first(extra_components)} :
       \E r \in {add_type(c, schemas, extra_components \ {c}, types)} :
          /\ popped' = Append(popped, c)
          /\ schemas' = r.schemas
          /\ extra_components' = r.extra_components
          /\ types' = r.types
          /\ pc' = IF r.panicked THEN "panicked" ELSE "loop"
    /\ UNCHANGED <<input, referenced_components, prev>>
    /\ UNCHANGED outside_builder

\* The frontier is empty: the loop ends and the Type map is returned.
Return ==
    /\ pc = "loop"
    /\ extra_components = {}
    /\ pc' = "done"
    /\ UNCHANGED <<input, referenced_components, schemas, extra_components,
                   types, popped, prev>>
    /\ UNCHANGED outside_builder

\* One turn of the loops of Api::new over the paths and the operations of a
\* path item: Operation::from_openapi, and for an operation it returns
\* get_or_insert_resource and the push on the Resource.
ExtractOperation ==
    /\ pc \in {"idle", "paths"}
    /\ Len(processed) < MaxOps
    /\ \E in \in OperationInputs :
       \E r \in {Operation_from_openapi(in.method, in.op, ComponentPool,
                                        in.include_hidden)} :
          /\ processed' = Append(processed, in)
          /\ pc' = IF IsOk(r) THEN "paths" ELSE "panicked"
          /\ resources' =
                IF IsOk(r) /\ IsSome(r.val)
                THEN operations_push(
                         get_or_insert_resource(resources, Unwrap(r.val)[1]),
                         Unwrap(r.val)[1], 1, Unwrap(r.val)[2])
                ELSE resources
    /\ UNCHANGED <<api, merged>>
    /\ UNCHANGED outside_extraction

\* Api::new returns its resources and Api::from_iter merges them into the
\* Api it collects.
CollectApi ==
    /\ pc = "paths"
    /\ merged < MaxApis
    /\ \E m \in {merge_resources(api, resources)} :
          /\ api' = IF IsOk(m) THEN m.val ELSE api
          /\ pc' = IF IsOk(m) THEN "idle" ELSE "panicked"
    /\ resources' = EmptyMap
    /\ merged' = merged + 1
    /\ UNCHANGED processed
    /\ UNCHANGED outside_extraction

Next == Start \/ PopAndAddType \/ Return

Spec == Init /\ [][Next]_vars

\* Two runs on the same input in different orders.
NextOrder == StartOrder \/ Rerun \/ PopAndAddType \/ Return

SpecOrder == Init /\ [][NextOrder]_vars

\* Runs on the seeds of a resource tree.
NextApi == StartApi \/ PopAndAddType \/ Return

SpecApi == Init /\ [][NextApi]_vars

\* The extraction of the resource trees of the Apis that are merged.
NextExtract == ExtractOperation \/ CollectApi

SpecExtract == Init /\ [][NextExtract]_vars

\* Runs on one schema with a oneOf list.
NextEnum == StartEnum \/ PopAndAddType \/ Return

SpecEnum == Init /\ [][NextEnum]_vars

(***************************************************************************)
(* Vocabulary of the claims                                                *)
(***************************************************************************)
InitialPool == Keys(input.schemas)
Seeds == collect(referenced_components)

\* The loop has just popped a name: the step is an iteration of the loop.
Iteration == pc = "loop" /\ Len(popped') = Len(popped) + 1
Current == popped'[Len(popped')]

\* The schema of a pool entry converts to a Type.
Converts(map, name) ==
    /\ name \in Keys(map)
    /\ Get(map, name).sk = "object"
    /\ IsOk(Type_from_schema(name, Get(map, name)))

\* Every schema name a FieldType mentions, "Data" included.
RECURSIVE FieldTypeNames(_)
FieldTypeNames(ft) ==
    CASE ft.id = "SchemaRef" -> {ft.name}
      [] ft.id \in {"List", "Set"} -> FieldTypeNames(ft.inner)
      [] ft.id = "Map" -> FieldTypeNames(ft.value_ty)
      [] OTHER -> {}

FieldsNames(fields) == UNION {FieldTypeNames(fields[i].type) : i \in DOMAIN fields}

VariantNames(v) ==
    IF v.content.type = "Struct" THEN FieldsNames(v.content.fields)
    ELSE IF IsSome(v.content.schema_ref) THEN {Unwrap(v.content.schema_ref)}
    ELSE {}

\* Every schema name a Type references: through a struct field, a
\* variant-independent field, a $ref variant or any field of an inline struct
\* variant.
TypeNames(ty) ==
    CASE ty.data.kind = "struct" -> FieldsNames(ty.data.fields)
      [] ty.data.kind = "struct_enum" ->
            FieldsNames(ty.data.fields)
                \cup UNION {VariantNames(ty.data.repr.variants[i]) :
                               i \in DOMAIN ty.data.repr.variants}
      [] OTHER -> {}

(***************************************************************************)
(* C1: the builder terminates for every pool and seed set: the frontier    *)
(* eventually becomes empty and the builder returns.  Stated on finite     *)
(* runs: no step of the loop aborts the builder, and every iteration       *)
(* lowers the pair (size of the pool, size of the frontier) in the         *)
(* lexicographic order, so only finitely many iterations precede the       *)
(* return.                                                                 *)
(***************************************************************************)
RankLowered ==
    \/ Len(schemas') < Len(schemas)
    \/ /\ Len(schemas') = Len(schemas)
       /\ Cardinality(extra_components') < Cardinality(extra_components)

C1_BuilderReturns ==
    [][pc = "loop" =>
          \/ pc' = "done" /\ extra_components' = {}
          \/ pc' = "loop" /\ RankLowered]_vars

(***************************************************************************)
(* C2: when the builder returns, every name other than "Data" that a Type  *)
(* of the map references is a key of the map, provided it was in the       *)
(* initial pool and converts.                                              *)
(***************************************************************************)
C2_ClosedUnderReference ==
    pc = "done" =>
        \A n \in DOMAIN types :
            \A m \in TypeNames(types[n]) \ {"Data"} :
                Converts(input.schemas, m) => m \in DOMAIN types

(***************************************************************************)
(* C3: no name is both in the pool and in the Type map, every key of the   *)
(* Type map was in the initial pool, and popping a name whose schema was   *)
(* already consumed changes neither the pool nor the Type map.             *)
(***************************************************************************)
C3_ConvertedAtMostOnce ==
    /\ [](/\ Keys(schemas) \cap DOMAIN types = {}
          /\ DOMAIN types \subseteq InitialPool)
    /\ [][Iteration /\ Current \in InitialPool \ Keys(schemas)
            => schemas' = schemas /\ types' = types]_vars

\* A consumed name was popped a second time.
C3_Witness ==
    /\ pc = "done"
    /\ \E i, j \in DOMAIN popped :
          i < j /\ popped[i] = popped[j] /\ popped[i] \in InitialPool

(***************************************************************************)
(* C6: a pending name that is absent from the pool is skipped without      *)
(* failing: nothing is added to the Type map or the frontier, and the loop *)
(* goes on; seeds that are all absent from the pool give an empty map.     *)
(***************************************************************************)
C6_MissingNameSkipped ==
    /\ [][Iteration /\ Current \notin Keys(schemas)
            => /\ types' = types
               /\ schemas' = schemas
               /\ extra_components' = extra_components \ {Current}
               /\ pc' = "loop"]_vars
    /\ [](Seeds \cap InitialPool = {} => types = EmptyMap /\ pc # "panicked")

\* The run was seeded only with absent names and has returned.
C6_Witness ==
    /\ pc = "done"
    /\ Seeds # {}
    /\ Seeds \cap InitialPool = {}
    /\ Len(popped) = Cardinality(Seeds)
    /\ types = EmptyMap

(***************************************************************************)
(* C7: when the conversion of a popped schema fails, the name gets no      *)
(* entry, nothing is added to the frontier, the Type map is unchanged and  *)
(* the builder goes on with the remaining frontier.                        *)
(***************************************************************************)
C7_FailedConversionDropped ==
    [][Iteration /\ Current \in Keys(schemas) /\ ~Converts(schemas, Current)
         => /\ types' = types
            /\ extra_components' = extra_components \ {Current}
            /\ pc' = "loop"]_vars

(***************************************************************************)
(* C8: no iteration of the loop adds "Data" to the frontier.               *)
(***************************************************************************)
C8_DataNeverQueued ==
    [][pc = "loop" /\ "Data" \notin extra_components
         => "Data" \notin extra_components']_vars


(***************************************************************************)
(* C4: every iteration of the loop processes the smallest name of the      *)
(* frontier in the order of the names, and a second run on the same pool   *)
(* in another insertion order and the same seed names in another order     *)
(* processes the same names in the same order as the first run.            *)
(***************************************************************************)
C4_PopsSmallest ==
    /\ [][Iteration =>
            /\ Current \in extra_components
            /\ \A n \in extra_components : NameOrd(Current) <= NameOrd(n)]_vars
    /\ [](IsSome(prev) /\ pc \in {"done", "panicked"} =>
            popped = Unwrap(prev).popped)

\* The second run, started from a pool and a seed list that are both out of
\* name order, has processed at least two names.
C4_Witness ==
    /\ IsSome(prev)
    /\ pc = "done"
    /\ Len(popped) >= 2
    /\ Len(input.schemas) >= 2
    /\ NameOrd(input.schemas[1][1]) > NameOrd(input.schemas[2][1])
    /\ Len(referenced_components) >= 2
    /\ NameOrd(referenced_components[1]) > NameOrd(referenced_components[2])

(***************************************************************************)
(* C5: a second run on the same name-to-schema mapping in another          *)
(* insertion order and on the same set of seed names in another order,     *)
(* possibly repeated, ends as the first run did and returns an equal Type  *)
(* map.                                                                    *)
(***************************************************************************)
C5_Deterministic ==
    IsSome(prev) /\ pc \in {"done", "panicked"} =>
        /\ pc = Unwrap(prev).pc
        /\ pc = "done" => types = Unwrap(prev).types

\* Both runs returned a map of two Types; the second started from a
\* reordered pool and from a seed list with a repeated name.
C5_Witness ==
    /\ IsSome(prev)
    /\ pc = "done"
    /\ Cardinality(DOMAIN types) >= 2
    /\ Len(input.schemas) >= 2
    /\ NameOrd(input.schemas[1][1]) > NameOrd(input.schemas[2][1])
    /\ Len(referenced_components) > Cardinality(Seeds)

(***************************************************************************)
(* C9: the seed names contain every schema name an operation of the        *)
(* resource tree references, at any depth of subresources: its request     *)
(* body, its response body and the schema named by the type of a query     *)
(* parameter, also inside a list, set or map type.                         *)
(***************************************************************************)
OperationNames(operation) ==
    UNION {FieldTypeNames(operation.query_params[i].type) :
              i \in DOMAIN operation.query_params}
    \cup collect(operation.request_body_schema_name)
    \cup collect(operation.response_body_schema_name)

RECURSIVE ResourceNames(_)
ResourceNames(resource) ==
    UNION {OperationNames(resource.operations[i]) :
              i \in DOMAIN resource.operations}
    \cup UNION {ResourceNames(resource.subresources[i]) :
                   i \in DOMAIN resource.subresources}

TreeNames(res) == UNION {ResourceNames(res[i]) : i \in DOMAIN res}

C9_SeedsCoverOperations ==
    pc # "idle" => TreeNames(input.res) \subseteq Seeds

(***************************************************************************)
(* C10 as stated: in every include mode each webhook name is in the        *)
(* initial frontier, and a webhook schema that is in the pool and converts *)
(* is in the Type map the builder returns.                                 *)
(***************************************************************************)
InitialFrontier == pc = "loop" /\ popped = <<>>
WebhookNamesGiven == collect(input.webhooks)

HasOneOf ==
    /\ Len(input.schemas) = 1
    /\ input.schemas[1][1] = "A"
    /\ input.schemas[1][2].sk = "object"
    /\ IsSome(input.schemas[1][2].subschemas)
    /\ IsSome(Unwrap(input.schemas[1][2].subschemas).one_of)

OneOfInput == Unwrap(Unwrap(input.schemas[1][2].subschemas).one_of)

\* The properties of a oneOf entry, in their map order.
EntryProps(e) == Unwrap(e.object).properties

\* A property schema that holds one constant string: exactly one enum
\* value that is a string, or a const that is a string.
IsConstString(p) ==
    /\ p.sk = "object"
    /\ \/ /\ IsSome(p.enum_values)
          /\ Len(Unwrap(p.enum_values)) = 1
          /\ IsJStr(Unwrap(p.enum_values)[1])
       \/ IsSome(p.const_value) /\ IsJStr(Unwrap(p.const_value))

ConstStringOf(p) ==
    IF IsSome(p.const_value) THEN Unwrap(p.const_value).str
    ELSE Unwrap(p.enum_values)[1].str

\* The discriminator properties of an entry, as <<name, value>> pairs.
EntryDiscriminators(e) ==
    {<<EntryProps(e)[i][1], ConstStringOf(EntryProps(e)[i][2])>> :
        i \in {j \in DOMAIN EntryProps(e) : IsConstString(EntryProps(e)[j][2])}}

\* The properties of an entry besides its discriminator.
EntryOthers(e) ==
    SelectSeq(EntryProps(e), LAMBDA np : ~IsConstString(np[2]))

Ended == pc \in {"done", "panicked"}

Inferred == "A" \in DOMAIN types /\ types["A"].data.kind = "struct_enum"

InferredVariants == types["A"].data.repr.variants

(***************************************************************************)
(* C11: inference on the oneOf list                                        *)
(*   {type: const "a", data: $ref B}, {type: const "b", data: inline       *)
(*   object with property x}, {type: const "c"}                            *)
(* gives discriminator_field "type", content_field "data" and the three    *)
(* variants ("a", Ref to B), ("b", Struct with the field x), ("c", Ref to  *)
(* nothing), in this order; and whenever inference succeeds the result has *)
(* one variant per oneOf entry, in the order of the entries, each named by *)
(* the discriminator value of its entry.                                   *)
(***************************************************************************)
C11_VariantPerEntryInOrder ==
    /\ pc = "done" /\ HasOneOf /\ OneOfInput \in {ExampleOneOf, ConstExampleOneOf} =>
          /\ Inferred
          /\ types["A"].data.discriminator_field = "type"
          /\ types["A"].data.repr.content_field = "data"
          /\ Len(InferredVariants) = 3
          /\ InferredVariants[1] = SimpleVariant("a", EvtRef(Some("B")))
          /\ InferredVariants[2].name = "b"
          /\ InferredVariants[2].content.type = "Struct"
          /\ [i \in DOMAIN InferredVariants[2].content.fields |->
                 InferredVariants[2].content.fields[i].name] = <<"x">>
          /\ InferredVariants[3] = SimpleVariant("c", EvtRef(None))
    /\ pc = "done" /\ HasOneOf /\ Inferred =>
          /\ Len(InferredVariants) = Len(OneOfInput)
          /\ \A i \in DOMAIN OneOfInput :
                \E d \in EntryDiscriminators(OneOfInput[i]) :
                    InferredVariants[i].name = d[2]

\* The names of the properties of an entry that hold a constant string.
EntryDiscriminatorNames(e) == {d[1] : d \in EntryDiscriminators(e)}

\* The entries with exactly one property besides the discriminator.
ContentEntries == {i \in DOMAIN OneOfInput : Len(EntryOthers(OneOfInput[i])) = 1}

EntryContentName(i) == EntryOthers(OneOfInput[i])[1][1]

(***************************************************************************)
(* C12: the variants agree on the field names.  The first variant fixes    *)
(* the discriminator field name and the first variant with content fixes   *)
(* the content field name; when a later variant has a different            *)
(* discriminator name or a different content name, inference fails for the *)
(* whole schema and no StructEnum is produced.                             *)
(***************************************************************************)
C12_FieldNamesAgree ==
    /\ Ended /\ HasOneOf
         /\ (\E i, j \in DOMAIN OneOfInput :
                EntryDiscriminatorNames(OneOfInput[i])
                    # EntryDiscriminatorNames(OneOfInput[j]))
         => "A" \notin DOMAIN types
    /\ Ended /\ HasOneOf
         /\ (\E i, j \in ContentEntries : EntryContentName(i) # EntryContentName(j))
         => "A" \notin DOMAIN types
    /\ pc = "done" /\ HasOneOf /\ Inferred =>
         /\ EntryDiscriminatorNames(OneOfInput[1])
               = {types["A"].data.discriminator_field}
         /\ \E i \in ContentEntries :
               /\ \A j \in ContentEntries : i <= j
               /\ types["A"].data.repr.content_field = EntryContentName(i)

\* A list of two variants, each of a supported shape with a $ref content,
\* whose second variant names its discriminator or its content differently:
\* the run has ended without a Type for the schema.
C12_Witness ==
    /\ pc = "done" /\ HasOneOf
    /\ Len(OneOfInput) = 2
    /\ OneOfInput[1] = ContentVariant("a", RefSchema("B"))
    /\ OneOfInput[2] \in
          {PropsVariant(<< <<"data", RefSchema("B")>>,
                           <<"kind", StringConstSchema("d")>> >>),
           PropsVariant(<< <<"payload", RefSchema("C")>>,
                           <<"type", StringConstSchema("e")>> >>)}
    /\ "A" \notin DOMAIN types

(***************************************************************************)
(* C13: a variant with more than one property besides its discriminator is *)
(* rejected: inference fails for the schema.  In a successful inference a  *)
(* variant with no property besides the discriminator is the unit-like     *)
(* variant Ref{schema_ref: None}, and a variant with exactly one other     *)
(* property carries content: a Struct, or a Ref to a named schema.         *)
(***************************************************************************)
C13_AtMostOneContentProperty ==
    /\ Ended /\ HasOneOf
         /\ (\E i \in DOMAIN OneOfInput :
                /\ EntryDiscriminators(OneOfInput[i]) # {}
                /\ Len(EntryOthers(OneOfInput[i])) > 1)
         => "A" \notin DOMAIN types
    /\ pc = "done" /\ HasOneOf /\ Inferred =>
         \A i \in DOMAIN OneOfInput :
            /\ Len(EntryOthers(OneOfInput[i])) \in {0, 1}
            /\ Len(EntryOthers(OneOfInput[i])) = 0 =>
                  InferredVariants[i].content = EvtRef(None)
            /\ Len(EntryOthers(OneOfInput[i])) = 1 =>
                  \/ InferredVariants[i].content.type = "Struct"
                  \/ /\ InferredVariants[i].content.type = "Ref"
                     /\ IsSome(InferredVariants[i].content.schema_ref)

\* A run has ended without a Type for a schema whose oneOf list is one
\* variant with a discriminator, a $ref content and a third property.
C13_Witness ==
    /\ pc = "done" /\ HasOneOf
    /\ OneOfInput = <<PropsVariant(<< <<"data", RefSchema("B")>>,
                                      <<"type", StringConstSchema("f")>>,
                                      <<"z", StringSchema>> >>)>>
    /\ "A" \notin DOMAIN types

\* The schema of the one property of entry i besides the discriminator.
EntryContent(i) == EntryOthers(OneOfInput[i])[1][2]

IsInlineObject(p) == p.sk = "object" /\ IsSome(p.object)

IsRefSchema(p) == p.sk = "object" /\ IsNone(p.object) /\ IsSome(p.reference)

\* The discriminator of the entry is a single-value enum.
EnumDiscriminated(e) ==
    \E i \in DOMAIN EntryProps(e) :
        /\ IsConstString(EntryProps(e)[i][2])
        /\ IsSome(EntryProps(e)[i][2].enum_values)

(***************************************************************************)
(* C14: the content property of a variant yields Struct{fields} when its   *)
(* schema is an inline object and Ref{schema_ref: Some(name)} when its     *)
(* schema is a $ref; with any other shape (a bare scalar, an array, a      *)
(* boolean schema) inference fails for the schema.                         *)
(***************************************************************************)
C14_ContentStructOrRef ==
    /\ pc = "done" /\ HasOneOf /\ Inferred =>
         \A i \in ContentEntries :
            /\ IsInlineObject(EntryContent(i)) =>
                 /\ InferredVariants[i].content.type = "Struct"
                 /\ [k \in DOMAIN InferredVariants[i].content.fields |->
                        InferredVariants[i].content.fields[k].name]
                      = [k \in DOMAIN Unwrap(EntryContent(i).object).properties |->
                            Unwrap(EntryContent(i).object).properties[k][1]]
            /\ IsRefSchema(EntryContent(i)) =>
                 InferredVariants[i].content
                     = EvtRef(Some(Unwrap(EntryContent(i).reference).name))
    /\ Ended /\ HasOneOf
         /\ (\E i \in ContentEntries :
                ~IsInlineObject(EntryContent(i)) /\ ~IsRefSchema(EntryContent(i)))
         => "A" \notin DOMAIN types
    /\ Ended /\ HasOneOf /\ Len(OneOfInput) = 1
         /\ EnumDiscriminated(OneOfInput[1])
         /\ ContentEntries = {1} /\ IsRefSchema(EntryContent(1))
         => /\ Inferred
            /\ InferredVariants[1].content.type = "Ref"
            /\ IsSome(InferredVariants[1].content.schema_ref)

\* A FieldType that is StringConst or holds one inside a list, set or map.
RECURSIVE HasStringConst(_)
HasStringConst(ft) ==
    CASE ft.id = "StringConst" -> TRUE
      [] ft.id \in {"List", "Set"} -> HasStringConst(ft.inner)
      [] ft.id = "Map" -> HasStringConst(ft.value_ty)
      [] OTHER -> FALSE

\* Every field of a Type: the fields of a struct, the variant-independent
\* fields of a struct enum and the fields of its inline struct variants.
TypeFields(ty) ==
    CASE ty.data.kind = "struct" ->
            {ty.data.fields[i] : i \in DOMAIN ty.data.fields}
      [] ty.data.kind = "struct_enum" ->
            {ty.data.fields[i] : i \in DOMAIN ty.data.fields}
                \cup UNION {IF ty.data.repr.variants[v].content.type = "Struct"
                            THEN {ty.data.repr.variants[v].content.fields[i] :
                                    i \in DOMAIN ty.data.repr.variants[v].content.fields}
                            ELSE {} : v \in DOMAIN ty.data.repr.variants}
      [] OTHER -> {}

(***************************************************************************)
(* C15: StringConst never surfaces in the map the builder returns: in      *)
(* every Type of the map no struct field, no variant-independent field of  *)
(* a struct enum and no field of an inline struct variant has the type     *)
(* StringConst, also not inside a list, a set or a map.                    *)
(***************************************************************************)
C15_NoStringConstField ==
    pc = "done" =>
        \A n \in DOMAIN types :
            \A f \in TypeFields(types[n]) : ~HasStringConst(f.type)

(***************************************************************************)
(* Vocabulary of the claims about the resource tree                        *)
(***************************************************************************)
\* The key paths of the nodes of a tree, from the root.
RECURSIVE TreePaths(_)
TreePaths(map) ==
    UNION {{<<k>>} \cup {<<k>> \o p : p \in TreePaths(map[k].subresources)} :
              k \in DOMAIN map}

RECURSIVE NodeAt(_, _)
NodeAt(map, path) ==
    IF Len(path) = 1 THEN map[path[1]]
    ELSE NodeAt(map[path[1]].subresources, Tail(path))

OperationsAt(map, path) ==
    IF path \in TreePaths(map) THEN NodeAt(map, path).operations ELSE <<>>

RECURSIVE DashJoined(_)
DashJoined(path) ==
    IF Len(path) = 1 THEN path[1]
    ELSE path[1] \o "-" \o DashJoined(Tail(path))

NamedByPath(map) ==
    \A p \in TreePaths(map) : NodeAt(map, p).name = DashJoined(p)

\* The resource path of an extracted operation: the pieces of its ID
\* between the first and the last.
ResourcePathOf(operation) ==
    SubSeq(split(operation.id), 2, Len(split(operation.id)) - 1)

\* The step looks at one more operation.
ExtractStep == Len(processed') = Len(processed) + 1

LastInput == processed[Len(processed)]

RECURSIVE PeriodJoined(_)
PeriodJoined(parts) ==
    (IF parts[1] = "" THEN <<>> ELSE <<parts[1]>>)
        \o (IF Len(parts) = 1 THEN <<>> ELSE <<".">> \o PeriodJoined(Tail(parts)))

\* The parts an ID is written from: one more than it has periods.
PartsOf(id) ==
    CHOOSE parts \in [1..(Cardinality({i \in DOMAIN id : id[i] = "."}) + 1) ->
                         ({id[i] : i \in DOMAIN id} \ {"."}) \cup {""}] :
        PeriodJoined(parts) = id

\* The ID is v1, then at least min_segments segments, then the operation
\* name, with a period between each two.
MatchesPattern(id, min_segments) ==
    /\ Len(PartsOf(id)) >= min_segments + 2
    /\ PartsOf(id)[1] = "v1"

\* An operation with an ID, not hidden, without parameters and request body,
\* and with one success response.
IsPlain(in) ==
    /\ IsSome(in.op.operation_id)
    /\ ~in.op.x_hidden
    /\ in.op.parameters = <<>>
    /\ IsNone(in.op.request_body)
    /\ in.op.responses = OkResponses

\* The step has put the operation of the ID at the node of the segments
\* between the first and the last part, under the last part as its name.
InsertedByParts(id) ==
    LET parts == PartsOf(id)
        path == SubSeq(parts, 2, Len(parts) - 1)
    IN /\ path \in TreePaths(resources')
       /\ NodeAt(resources', path).name = DashJoined(path)
       /\ OperationsAt(resources', path) # OperationsAt(resources, path)
       /\ OperationsAt(resources', path)[Len(OperationsAt(resources', path))].name
             = parts[Len(parts)]

IdStep(min_segments) ==
    ExtractStep /\ IsSome(LastInput'.op.operation_id) =>
        LET id == Unwrap(LastInput'.op.operation_id) IN
        /\ resources' # resources =>
             MatchesPattern(id, min_segments) /\ InsertedByParts(id)
        /\ MatchesPattern(id, min_segments) /\ IsPlain(LastInput') =>
             resources' # resources
        /\ ~MatchesPattern(id, min_segments) =>
             resources' = resources /\ pc' = "paths"

(***************************************************************************)
(* C17: an operation passes the operationId check only if its ID matches   *)
(* v1.<seg>(.<seg>)+.<opname>, that is v1, a segment, one or more further  *)
(* segments and the operation name; its resource path is then the          *)
(* segments between the first and the last part, in order, and its name    *)
(* the last part; with any other ID the operation is skipped: no error, no *)
(* node created in the tree.                                               *)
(***************************************************************************)
C17_IdWithTwoOrMoreSegments == [][IdStep(2)]_vars

(***************************************************************************)
(* C17 as amended: the pattern is v1(.<seg>)+.<opname>, that is v1, one or *)
(* more segments and the operation name, where a segment or the name may   *)
(* be empty ("v1.message_attempt.endpoint.resend" gives the path           *)
(* message_attempt, endpoint and the node name message_attempt-endpoint,   *)
(* "v1.endpoint.get" gives the path endpoint); an ID with no period, with  *)
(* one period or with a first part other than v1 makes the operation be    *)
(* skipped: no error, no node created in the tree.                         *)
(***************************************************************************)
C17_IdWithOneOrMoreSegments ==
    /\ [][IdStep(1)]_vars
    /\ [][ExtractStep
            /\ LastInput'.op.operation_id
                  = Some(<<"v1", ".", "message_attempt", ".", "endpoint", ".", "resend">>)
            /\ IsPlain(LastInput')
          => /\ <<"message_attempt", "endpoint">> \in TreePaths(resources')
             /\ NodeAt(resources', <<"message_attempt", "endpoint">>).name
                   = "message_attempt-endpoint"
             /\ \E i \in DOMAIN OperationsAt(resources',
                                            <<"message_attempt", "endpoint">>) :
                   OperationsAt(resources',
                                <<"message_attempt", "endpoint">>)[i].name = "resend"]_vars

\* The operation v1.message_attempt.endpoint.resend is in the tree, and an
\* operation with a one-period ID was looked at and left no node.
C17_Witness ==
    /\ pc = "paths"
    /\ Len(processed) = 2
    /\ processed[1].op.operation_id = Some(<<"v1", ".", "list">>)
    /\ processed[2].op.operation_id
          = Some(<<"v1", ".", "message_attempt", ".", "endpoint", ".", "resend">>)
    /\ TreePaths(resources) = {<<"message_attempt">>, <<"message_attempt", "endpoint">>}

HasRefParameter(in) == \E i \in DOMAIN in.op.parameters : in.op.parameters[i].ref

HasRefRequestBody(in) ==
    IsSome(in.op.request_body) /\ Unwrap(in.op.request_body).ref

HasRefResponse(in) ==
    /\ IsSome(in.op.responses)
    /\ \E i \in DOMAIN Unwrap(in.op.responses).responses :
          Unwrap(in.op.responses).responses[i][2].ref

(***************************************************************************)
(* C18: an operation with a $ref parameter, a $ref request body or a $ref  *)
(* response is dropped: the tree is left as it was, the run does not       *)
(* abort, and the operations looked at afterwards are still extracted.     *)
(***************************************************************************)
C18_RefOperationDropped ==
    [][ExtractStep
         /\ (HasRefParameter(LastInput') \/ HasRefRequestBody(LastInput')
               \/ HasRefResponse(LastInput'))
       => resources' = resources /\ pc' = "paths"]_vars

\* The path parameters of an operation, in declaration order.
PathParameters(in) ==
    SelectSeq(in.op.parameters, LAMBDA p : ~p.ref /\ p.item.kind = "path")

IsAcceptedPathParameter(p) ==
    /\ p.item.required
    /\ p.item.style = "simple"
    /\ p.item.format.is_schema
    /\ p.item.format.json_schema.sk = "object"
    /\ p.item.format.json_schema.instance_type = Some(Single("string"))

(***************************************************************************)
(* C19: a path parameter is accepted only when it is required,             *)
(* string-typed and of the style "simple", and the accepted ones are       *)
(* appended to path_params in declaration order; an operation with a path  *)
(* parameter that is optional, not string-typed or of another style is     *)
(* dropped as a whole (it is absent from the tree) and the run continues.  *)
(***************************************************************************)
C19_PathParametersAcceptedOrDropped ==
    [][ExtractStep /\ PathParameters(LastInput') # <<>> =>
         LET params == PathParameters(LastInput')
             path == ResourcePathOf([id |-> Unwrap(LastInput'.op.operation_id)])
         IN /\ resources' # resources =>
                 /\ \A i \in DOMAIN params : IsAcceptedPathParameter(params[i])
                 /\ OperationsAt(resources', path)[
                        Len(OperationsAt(resources', path))].path_params
                      = [i \in DOMAIN params |-> params[i].item.name]
            /\ (\A i \in DOMAIN params : IsAcceptedPathParameter(params[i]))
                 /\ Len(params) = Len(LastInput'.op.parameters)
               => resources' # resources
            /\ (\E i \in DOMAIN params : ~IsAcceptedPathParameter(params[i]))
               => resources' = resources /\ pc' = "paths"]_vars

\* The responses of an operation with a status code from 200 to 299, in
\* document order.
SuccessResponses(in) ==
    SelectSeq(Unwrap(in.op.responses).responses,
              LAMBDA e : \E c \in 200..299 : e[1] = Code(c))

\* The schema name a response that is not a $ref points at, if it has a body.
NameOfResponse(resp) ==
    IF resp.item.content = <<>> THEN None
    ELSE Some(Unwrap(Unwrap(resp.item.content[1][2].schema).reference).name)

SuccessNames(in) ==
    {NameOfResponse(SuccessResponses(in)[i][2]) : i \in DOMAIN SuccessResponses(in)}

\* An operation that differs from a plain one in its responses only: they
\* have no default, and the success responses are at least two, none a $ref.
HasSeveralSuccessResponses(in) ==
    /\ IsSome(in.op.operation_id) /\ MatchesPattern(Unwrap(in.op.operation_id), 1)
    /\ ~in.op.x_hidden
    /\ in.op.parameters = <<>>
    /\ IsNone(in.op.request_body)
    /\ IsSome(in.op.responses)
    /\ IsNone(Unwrap(in.op.responses).default)
    /\ Len(SuccessResponses(in)) >= 2
    /\ \A i \in DOMAIN SuccessResponses(in) : ~SuccessResponses(in)[i][2].ref

IsGetIfExists(p) ==
    ~p.ref /\ p.item.kind = "query" /\ p.item.name = "get_if_exists"

IsSupportedQuery(p) ==
    /\ p.item.style = "form" /\ ~p.item.allow_reserved
    /\ IsNone(p.item.allow_empty_value)

\* The operation without the parameters that Drop holds of.
WithoutParameters(in, Drop(_)) ==
    [in EXCEPT !.op.parameters = SelectSeq(@, LAMBDA p : ~Drop(p))]

\* The operation with its get_if_exists query parameters under the name
\* of another query parameter.
Renamed(in) ==
    [in EXCEPT !.op.parameters =
        [i \in DOMAIN @ |->
            IF IsGetIfExists(@[i]) THEN [@[i] EXCEPT !.item.name = "cursor"]
            ELSE @[i]]]

\* The step leaves the run and the tree as the extraction of the operation
\* in does; with Rename the query parameters named cursor of the extracted
\* operation are named get_if_exists.
StepAsFor(in, Rename(_)) ==
    \E r \in {Operation_from_openapi(in.method, in.op, ComponentPool,
                                     in.include_hidden)} :
       /\ pc' = IF IsOk(r) THEN "paths" ELSE "panicked"
       /\ resources' =
             IF IsOk(r) /\ IsSome(r.val)
             THEN operations_push(
                      get_or_insert_resource(resources, Unwrap(r.val)[1]),
                      Unwrap(r.val)[1], 1, Rename(Unwrap(r.val)[2]))
             ELSE resources

Unrenamed(operation) ==
    [operation EXCEPT !.query_params =
        [i \in DOMAIN @ |->
            IF @[i].name = "cursor" THEN [@[i] EXCEPT !.name = "get_if_exists"]
            ELSE @[i]]]

Same(operation) == operation

\* No POST operation of the tree has a query parameter get_if_exists.
NoGetIfExistsOnPost(map) ==
    \A path \in TreePaths(map) :
       \A i \in DOMAIN OperationsAt(map, path) :
          OperationsAt(map, path)[i].method = "post" =>
             \A q \in DOMAIN OperationsAt(map, path)[i].query_params :
                OperationsAt(map, path)[i].query_params[q].name # "get_if_exists"

\* On every other method the step is the one the operation takes with the
\* parameter under another name, the name apart.
KeptOnOtherMethods ==
    ExtractStep /\ LastInput'.method # "post" =>
        StepAsFor(Renamed(LastInput'), Unrenamed)

(***************************************************************************)
(* C21: on a POST operation a query parameter named get_if_exists never    *)
(* appears in query_params and does not make the operation be dropped: the *)
(* step is the one the operation takes without the parameter; on any other *)
(* method the parameter is kept like any other query parameter.            *)
(***************************************************************************)
C21_GetIfExistsIgnoredOnPost ==
    /\ [](NoGetIfExistsOnPost(resources) /\ NoGetIfExistsOnPost(api))
    /\ [][ExtractStep /\ LastInput'.method = "post" =>
             StepAsFor(WithoutParameters(LastInput', IsGetIfExists), Same)]_vars
    /\ [][KeptOnOtherMethods]_vars

\* A get_if_exists query parameter of the shape the extraction supports.
IsSupportedGetIfExists(p) == IsGetIfExists(p) /\ IsSupportedQuery(p)

(***************************************************************************)
(* C21 as it holds: on a POST operation a query parameter named            *)
(* get_if_exists of the supported shape (style form, no allowReserved, no  *)
(* allowEmptyValue) never appears in query_params and does not make the    *)
(* operation be dropped: the step is the one the operation takes without   *)
(* the parameter; one of another shape makes the operation be dropped as   *)
(* any unsupported parameter does, unless an earlier parameter aborts the  *)
(* run; on any other method the parameter is kept like any other query     *)
(* parameter.                                                              *)
(***************************************************************************)
C21_SupportedGetIfExistsIgnoredOnPost ==
    /\ [](NoGetIfExistsOnPost(resources) /\ NoGetIfExistsOnPost(api))
    /\ [][ExtractStep /\ LastInput'.method = "post" =>
             StepAsFor(WithoutParameters(LastInput', IsSupportedGetIfExists),
                       Same)]_vars
    /\ [][KeptOnOtherMethods]_vars

\* A POST operation with get_if_exists and limit is in the tree with limit
\* as its only query parameter, and a GET operation with get_if_exists has
\* the parameter.
C21_Witness ==
    /\ Len(processed) = 2
    /\ processed[1].method = "post"
    /\ Len(processed[1].op.parameters) = 2
    /\ IsSupportedGetIfExists(processed[1].op.parameters[1])
    /\ processed[2].method = "get"
    /\ Len(processed[2].op.parameters) = 1
    /\ IsGetIfExists(processed[2].op.parameters[1])
    /\ Len(OperationsAt(resources, <<"endpoint">>)) = 2
    /\ Len(OperationsAt(resources, <<"endpoint">>)[1].query_params) = 1
    /\ OperationsAt(resources, <<"endpoint">>)[1].query_params[1].name = "limit"
    /\ OperationsAt(resources, <<"endpoint">>)[2].query_params[1].name
          = "get_if_exists"

(***************************************************************************)
(* FieldType: the type names of the target languages                       *)
(*                                                                         *)
(* Each to_*_typename gives the string the code builds; to_ruby_typename   *)
(* gives Ok(string) or Panic.                                              *)
(***************************************************************************)
filter_schema_ref(name, json_obj_typename) ==
    IF name = "Data" THEN json_obj_typename ELSE name

RECURSIVE to_csharp_typename(_)
to_csharp_typename(ft) ==
    CASE ft.id = "Bool" -> "bool"
      [] ft.id = "Int16" -> "short"
      [] ft.id = "Int32" -> "int"
      [] ft.id = "Int64" -> "long"
      [] ft.id = "UInt16" -> "ushort"
      [] ft.id = "UInt32" -> "uint"
      [] ft.id = "UInt64" -> "ulong"
      [] ft.id = "String" -> "string"
      [] ft.id = "DateTime" -> "DateTime"
      [] ft.id = "Uri" -> "string"
      [] ft.id = "JsonObject" -> "Object"
      [] ft.id = "Map" ->
            "Dictionary<string, " \o to_csharp_typename(ft.value_ty) \o ">"
      [] ft.id \in {"List", "Set"} -> "List<" \o to_csharp_typename(ft.inner) \o ">"
      [] ft.id = "SchemaRef" -> filter_schema_ref(ft.name, "Object")
      [] ft.id = "StringConst" -> "string"

RECURSIVE to_go_typename(_)
to_go_typename(ft) ==
    CASE ft.id = "Bool" -> "bool"
      [] ft.id = "Int16" -> "int16"
      [] ft.id = "UInt16" -> "uint16"
      [] ft.id = "Int32" -> "int32"
      [] ft.id = "UInt32" -> "uint32"
      [] ft.id = "Int64" -> "int64"
      [] ft.id = "UInt64" -> "uint64"
      [] ft.id \in {"Uri", "String"} -> "string"
      [] ft.id = "DateTime" -> "time.Time"
      [] ft.id = "JsonObject" -> "map[string]any"
      [] ft.id = "Map" -> "map[string]" \o to_go_typename(ft.value_ty)
      [] ft.id \in {"List", "Set"} -> "[]" \o to_go_typename(ft.inner)
      [] ft.id = "SchemaRef" -> filter_schema_ref(ft.name, "map[string]any")
      [] ft.id = "StringConst" -> "string"

RECURSIVE to_kotlin_typename(_)
to_kotlin_typename(ft) ==
    CASE ft.id = "Bool" -> "Boolean"
      [] ft.id = "Int16" -> "Short"
      [] ft.id = "UInt16" -> "UShort"
      [] ft.id = "Int32" -> "Int"
      [] ft.id = "UInt32" -> "UInt"
      [] ft.id = "Int64" -> "Long"
      [] ft.id = "UInt64" -> "ULong"
      [] ft.id \in {"Uri", "String"} -> "String"
      [] ft.id = "DateTime" -> "Instant"
      [] ft.id = "Map" -> "Map<String," \o to_kotlin_typename(ft.value_ty) \o ">"
      [] ft.id = "JsonObject" -> "Map<String,Any>"
      [] ft.id = "List" -> "List<" \o to_kotlin_typename(ft.inner) \o ">"
      [] ft.id = "Set" -> "Set<" \o to_kotlin_typename(ft.inner) \o ">"
      [] ft.id = "SchemaRef" -> filter_schema_ref(ft.name, "Map<String,Any>")
      [] ft.id = "StringConst" -> "String"

RECURSIVE to_js_typename(_)
to_js_typename(ft) ==
    CASE ft.id = "Bool" -> "boolean"
      [] ft.id \in {"Int16", "UInt16", "Int32", "UInt32", "Int64", "UInt64"} ->
            "number"
      [] ft.id \in {"String", "Uri"} -> "string"
      [] ft.id = "DateTime" -> "Date"
      [] ft.id = "JsonObject" -> "any"
      [] ft.id \in {"List", "Set"} -> to_js_typename(ft.inner) \o "[]"
      [] ft.id = "Map" -> "{ [key: string]: " \o to_js_typename(ft.value_ty) \o " }"
      [] ft.id = "SchemaRef" -> filter_schema_ref(ft.name, "any")
      [] ft.id = "StringConst" -> "string"

RECURSIVE to_rust_typename(_)
to_rust_typename(ft) ==
    CASE ft.id = "Bool" -> "bool"
      [] ft.id = "Int16" -> "i16"
      [] ft.id = "UInt16" -> "u16"
      [] ft.id \in {"Int32", "UInt32", "Int64", "UInt64"} -> "i32"
      [] ft.id \in {"Uri", "String"} -> "String"
      [] ft.id = "DateTime" -> "DateTime<Utc>"
      [] ft.id = "JsonObject" -> "serde_json::Value"
      [] ft.id \in {"List", "Set"} -> "Vec<" \o to_rust_typename(ft.inner) \o ">"
      [] ft.id = "Map" ->
            "std::collections::HashMap<String, "
                \o to_rust_typename(ft.value_ty) \o ">"
      [] ft.id = "SchemaRef" -> filter_schema_ref(ft.name, "serde_json::Value")
      [] ft.id = "StringConst" -> "String"

RECURSIVE to_python_typename(_)
to_python_typename(ft) ==
    CASE ft.id = "Bool" -> "bool"
      [] ft.id \in {"Int16", "UInt16", "Int32", "UInt32", "Int64", "UInt64"} ->
            "int"
      [] ft.id = "String" -> "str"
      [] ft.id = "DateTime" -> "datetime"
      [] ft.id = "SchemaRef" -> filter_schema_ref(ft.name, "t.Dict[str, t.Any]")
      [] ft.id = "Uri" -> "str"
      [] ft.id = "JsonObject" -> "t.Dict[str, t.Any]"
      [] ft.id \in {"Set", "List"} -> "t.List[" \o to_python_typename(ft.inner) \o "]"
      [] ft.id = "Map" ->
            "t.Dict[str, " \o to_python_typename(ft.value_ty) \o "]"
      [] ft.id = "StringConst" -> "str"

RECURSIVE to_java_typename(_)
to_java_typename(ft) ==
    CASE ft.id = "Bool" -> "Boolean"
      [] ft.id = "Int16" -> "Short"
      [] ft.id \in {"UInt16", "UInt64", "Int64"} -> "Long"
      [] ft.id \in {"Int32", "UInt32"} -> "Integer"
      [] ft.id = "String" -> "String"
      [] ft.id = "DateTime" -> "OffsetDateTime"
      [] ft.id = "Uri" -> "URI"
      [] ft.id = "JsonObject" -> "Object"
      [] ft.id = "List" -> "List<" \o to_java_typename(ft.inner) \o ">"
      [] ft.id = "Set" -> "Set<" \o to_java_typename(ft.inner) \o ">"
      [] ft.id = "Map" -> "Map<String," \o to_java_typename(ft.value_ty) \o ">"
      [] ft.id = "SchemaRef" -> filter_schema_ref(ft.name, "Object")
      [] ft.id = "StringConst" -> "TypeEnum"

\* unreachable! and panic! both abort.
to_ruby_typename(ft) ==
    CASE ft.id = "SchemaRef" -> Ok(ft.name)
      [] ft.id = "StringConst" -> Panic
      [] OTHER -> Panic

to_php_typename(ft) ==
    CASE ft.id = "Bool" -> "bool"
      [] ft.id \in {"UInt16", "Int16", "UInt64", "Int32", "UInt32", "Int64"} ->
            "int"
      [] ft.id \in {"Uri", "StringConst", "String"} -> "string"
      [] ft.id = "DateTime" -> "\\DateTimeImmutable"
      [] ft.id \in {"JsonObject", "List", "Set", "Map"} -> "array"
      [] ft.id = "SchemaRef" -> ft.name

RECURSIVE to_phpdoc_typename(_)
to_phpdoc_typename(ft) ==
    CASE ft.id \in {"Set", "List"} -> "list<" \o to_phpdoc_typename(ft.inner) \o ">"
      [] ft.id = "Map" ->
            "array<string, " \o to_phpdoc_typename(ft.value_ty) \o ">"
      [] OTHER -> to_php_typename(ft)

\* The methods of call_method that give a type name.
Languages ==
    {"to_python", "to_csharp", "to_go", "to_js", "to_kotlin", "to_rust",
     "to_java", "to_ruby", "to_php", "to_phpdoc"}

\* FieldType::call_method for the type-name methods, without arguments.
call_method(ft, method) ==
    CASE method = "to_python" -> Ok(to_python_typename(ft))
      [] method = "to_csharp" -> Ok(to_csharp_typename(ft))
      [] method = "to_go" -> Ok(to_go_typename(ft))
      [] method = "to_js" -> Ok(to_js_typename(ft))
      [] method = "to_kotlin" -> Ok(to_kotlin_typename(ft))
      [] method = "to_rust" -> Ok(to_rust_typename(ft))
      [] method = "to_java" -> Ok(to_java_typename(ft))
      [] method = "to_ruby" -> to_ruby_typename(ft)
      [] method = "to_php" -> Ok(to_php_typename(ft))
      [] method = "to_phpdoc" -> Ok(to_phpdoc_typename(ft))

\* The FieldType values: every variant, and containers nested up to
\* MaxNesting deep.
MaxNesting == 1

PlainFieldTypes ==
    {FtPlain(id) : id \in {"Bool", "Int16", "UInt16", "Int32", "UInt32", "Int64",
                           "UInt64", "String", "DateTime", "Uri", "JsonObject"}}
    \cup {FtSchemaRef("A"), FtSchemaRef("Data"), FtSchemaRef(""), FtStringConst("x")}

RECURSIVE FieldTypesOfDepth(_)
FieldTypesOfDepth(depth) ==
    IF depth = 0 THEN PlainFieldTypes
    ELSE LET inner == FieldTypesOfDepth(depth - 1) IN
         inner \cup {FtList(ft) : ft \in inner} \cup {FtSet(ft) : ft \in inner}
               \cup {FtMap(ft) : ft \in inner}

FieldTypes == FieldTypesOfDepth(MaxNesting)

\* A template is about to call a type-name method on a FieldType.
InitTypename ==
    /\ Idle
    /\ call \in [fn : {"call_method"}, ft : FieldTypes, method : Languages]
    /\ ret = None

Returns(value) ==
    /\ ret = None
    /\ ret' = Some(value)
    /\ UNCHANGED <<outside_call, call>>

CallMethod ==
    /\ call # None /\ call.fn = "call_method"
    /\ Returns(call_method(call.ft, call.method))

NextTypename == CallMethod

SpecTypename == InitTypename /\ [][NextTypename]_vars

(***************************************************************************)
(* C22: the projection of a type name is total: for every FieldType value  *)
(* (each variant, and containers over any inner type) and every target     *)
(* language the call returns a non-empty string and does not abort.        *)
(***************************************************************************)
C22_ProjectionTotal ==
    IsSome(ret) =>
        /\ IsOk(Unwrap(ret))
        /\ Unwrap(ret).val # ""

(***************************************************************************)
(* generate and the Postprocessor                                          *)
(*                                                                         *)
(* generate renders its outputs one after the other, each written to a     *)
(* file of the output directory, and then, unless no_postprocess is set,   *)
(* runs the commands of the language of the file extension.  What a        *)
(* started process or container does is the environment's: each start has  *)
(* one of the outcomes the code tells apart.  A file that a template       *)
(* names as extra_generated_file is left out.                              *)
(***************************************************************************)
MaxRuns == 1
MaxFiles == 1

Exts == {"py", "rs", "go", "kt", "cs", "java", "ts", "rb", "php"}

OutputNames == <<"endpoint", "message", "application">>

OutputLists == {SubSeq(OutputNames, 1, n) : n \in 1..MaxFiles}

\* Postprocessor::from_ext: the language of a file extension
PostprocessorLanguage(ext) ==
    CASE ext = "py" -> "Python"
      [] ext = "rs" -> "Rust"
      [] ext = "go" -> "Go"
      [] ext = "kt" -> "Kotlin"
      [] ext = "cs" -> "CSharp"
      [] ext = "java" -> "Java"
      [] ext = "ts" -> "TypeScript"
      [] ext = "rb" -> "Ruby"
      [] OTHER -> "Unknown"

\* The commands with the Python formatter run before the two lint passes.
postprocessing_commands_format_first(lang) ==
    IF lang = "Python"
    THEN << <<"ruff", <<"format", "--no-respect-gitignore">> >>,
            <<"ruff", <<"check", "--no-respect-gitignore", "--fix">> >>,
            <<"ruff", <<"check", "--no-respect-gitignore", "--select", "I",
                        "--fix">> >> >>
    ELSE IF lang = "Go" THEN << <<"goimports", <<"-w">> >>, <<"gofmt", <<"-w">> >> >>
    ELSE << <<"formatter", <<>> >> >>

postprocessing_commands(lang) ==
    CASE lang = "Unknown" -> <<>>
      [] lang = "Python" ->
           << <<"ruff", <<"check", "--no-respect-gitignore", "--fix">> >>,
              <<"ruff", <<"check", "--no-respect-gitignore", "--select", "I",
                          "--fix">> >>,
              <<"ruff", <<"format", "--no-respect-gitignore">> >> >>
      [] lang = "Rust" ->
           << <<"rustfmt", <<"+nightly", "--unstable-features",
                             "--skip-children", "--edition", "2021">> >> >>
      [] lang = "Go" -> << <<"goimports", <<"-w">> >>, <<"gofmt", <<"-w">> >> >>
      [] lang = "Kotlin" -> << <<"ktfmt", <<"--kotlinlang-style">> >> >>
      [] lang = "CSharp" ->
           << <<"dotnet", <<"csharpier", "--fast", "--no-msbuild-check">> >> >>
      [] lang = "Java" -> << <<"google-java-format", <<"-i", "-a">> >> >>
      [] lang = "TypeScript" ->
           << <<"biome", <<"lint", "--only=correctness/noUnusedImports",
                           "--write">> >>,
              <<"biome", <<"check", "--formatter-enabled=false",
                           "--linter-enabled=false",
                           "--organize-imports-enabled=true", "--write">> >>,
              <<"biome", <<"format", "--trailing-commas=es5",
                           "--indent-style=space", "--line-width=90",
                           "--write">> >> >>
      [] lang = "Ruby" ->
           << <<"rubyfmt", <<"-i", "--include-gitignored", "--fail-fast">> >> >>

\* Postprocessor::from_ext; next is the command the loop of
\* run_postprocessor is at.
Postprocessor_from_ext(ext, output_dir, files, use_docker_backend) ==
    [files_to_process |-> files,
     postprocessor_lang |-> PostprocessorLanguage(ext),
     output_dir |-> output_dir,
     runner |-> IF use_docker_backend THEN "Docker" ELSE "Cli",
     next |-> 1]

\* The paths run_postprocessor passes to a command.
command_paths(p) ==
    IF p.postprocessor_lang \in {"Java", "Rust"} THEN p.files_to_process
    ELSE <<p.output_dir>>

\* What Command::status gives, and what starting a container gives.
StatusResults == {"success", "exit_failure", "not_found", "io_error"}
DockerResults == {"started", "error", "panic"}

Warning(command, message) == [command |-> command, message |-> message]

\* cli::execute_command with a warning for every binary that is not found.
cli_execute_command_warns_always(command, result, logged) ==
    CASE result = "success" -> [warnings |-> <<>>, logged |-> logged]
      [] result = "exit_failure" ->
           [warnings |-> <<Warning(command, "failed")>>, logged |-> logged]
      [] result = "not_found" ->
           [warnings |-> <<Warning(command, "not found")>>,
            logged |-> logged \cup {command}]
      [] result = "io_error" ->
           [warnings |-> <<Warning(command, "running failed")>>,
            logged |-> logged]

\* cli::execute_command after Command::status has given result: the
\* warnings it writes and the set NOT_FOUND_LOGGED_FOR it leaves.
cli_execute_command(command, result, logged) ==
    CASE result = "success" -> [warnings |-> <<>>, logged |-> logged]
      [] result = "exit_failure" ->
           [warnings |-> <<Warning(command, "failed")>>, logged |-> logged]
      [] result = "not_found" ->
           IF command \notin logged
           THEN [warnings |-> <<Warning(command, "not found")>>,
                 logged |-> logged \cup {command}]
           ELSE [warnings |-> <<>>, logged |-> logged]
      [] result = "io_error" ->
           [warnings |-> <<Warning(command, "running failed")>>,
            logged |-> logged]

\* render_tpl: the path of the file of an output
file_path(output_dir, basename, tpl_file_ext) ==
    output_dir \o "/" \o basename \o "." \o tpl_file_ext

\* generate is called.
Generate ==
    /\ pc \in {"idle", "generated", "failed"}
    /\ (IF call = None THEN 0 ELSE call.nth) < MaxRuns
    /\ \E ext \in Exts, no_postprocess \in BOOLEAN,
          use_docker_backend \in BOOLEAN, outputs \in OutputLists :
          call' = [fn |-> "generate", tpl_file_ext |-> ext, output_dir |-> "out",
                   no_postprocess |-> no_postprocess,
                   use_docker_backend |-> use_docker_backend,
                   outputs |-> outputs,
                   nth |-> (IF call = None THEN 0 ELSE call.nth) + 1]
    /\ ret' = None
    /\ generated_paths' = <<>>
    /\ postprocessor' = None
    /\ pc' = "render"
    /\ UNCHANGED <<fs, spawned, warnings, NOT_FOUND_LOGGED_FOR>>
    /\ UNCHANGED <<builder_vars, extraction_vars, reader_vars>>

\* render_tpl for the next output: the template is rendered and the file
\* written, or one of the two fails and generate returns the error.
RenderTpl ==
    /\ pc = "render"
    /\ Len(generated_paths) < Len(call.outputs)
    /\ \E rendered \in BOOLEAN :
       \E path \in {file_path(call.output_dir,
                              call.outputs[Len(generated_paths) + 1],
                              call.tpl_file_ext)} :
          /\ generated_paths' =
                IF rendered THEN Append(generated_paths, path) ELSE generated_paths
          /\ fs' = IF rendered THEN fs \cup {path} ELSE fs
          /\ pc' = IF rendered THEN "render" ELSE "failed"
          /\ ret' = IF rendered THEN None ELSE Some(Err)
    /\ UNCHANGED <<call, postprocessor, spawned, warnings, NOT_FOUND_LOGGED_FOR>>
    /\ UNCHANGED <<builder_vars, extraction_vars, reader_vars>>

\* All outputs are written and no_postprocess is not set: the Postprocessor
\* is made and run_postprocessor entered.
RunPostprocessor ==
    /\ pc = "render"
    /\ Len(generated_paths) = Len(call.outputs)
    /\ ~call.no_postprocess
    /\ postprocessor' = Some(Postprocessor_from_ext(call.tpl_file_ext,
                                 call.output_dir, generated_paths,
                                 call.use_docker_backend))
    /\ pc' = "postprocess"
    /\ UNCHANGED <<call, ret, fs, generated_paths, spawned, warnings,
                   NOT_FOUND_LOGGED_FOR>>
    /\ UNCHANGED <<builder_vars, extraction_vars, reader_vars>>

\* One turn of the loop of run_postprocessor: Postprocessor::execute_command
\* with the runner of the Postprocessor.
ExecuteCommand ==
    /\ pc = "postprocess"
    /\ \E p \in {Unwrap(postprocessor)} :
       \E commands \in {postprocessing_commands(p.postprocessor_lang)} :
          /\ p.next <= Len(commands)
          /\ spawned' = Append(spawned,
                 [command |-> commands[p.next][1], args |-> commands[p.next][2],
                  paths |-> command_paths(p), runner |-> p.runner])
          /\ postprocessor' = Some([p EXCEPT !.next = @ + 1])
          /\ \/ /\ p.runner = "Cli"
                /\ \E result \in StatusResults :
                   \E e \in {cli_execute_command(commands[p.next][1], result,
                                                 NOT_FOUND_LOGGED_FOR)} :
                      /\ warnings' = warnings \o e.warnings
                      /\ NOT_FOUND_LOGGED_FOR' = e.logged
                /\ UNCHANGED <<pc, ret>>
             \/ /\ p.runner = "Docker"
                /\ \E result \in DockerResults :
                      /\ pc' = CASE result = "started" -> "postprocess"
                                 [] result = "error" -> "failed"
                                 [] result = "panic" -> "panicked"
                      /\ ret' = IF result = "error" THEN Some(Err) ELSE None
                /\ UNCHANGED <<warnings, NOT_FOUND_LOGGED_FOR>>
    /\ UNCHANGED <<call, fs, generated_paths>>
    /\ UNCHANGED <<builder_vars, extraction_vars, reader_vars>>

\* generate returns the paths: postprocessing is disabled, or the loop over
\* the commands has ended.
ReturnPaths ==
    /\ \/ /\ pc = "render"
          /\ Len(generated_paths) = Len(call.outputs)
          /\ call.no_postprocess
       \/ /\ pc = "postprocess"
          /\ Unwrap(postprocessor).next
                > Len(postprocessing_commands(Unwrap(postprocessor).postprocessor_lang))
    /\ pc' = "generated"
    /\ ret' = Some(Ok(generated_paths))
    /\ UNCHANGED <<call, postprocessing_vars>>
    /\ UNCHANGED <<builder_vars, extraction_vars, reader_vars>>

NextGenerate ==
    Generate \/ RenderTpl \/ RunPostprocessor \/ ExecuteCommand \/ ReturnPaths

SpecGenerate == Init /\ [][NextGenerate]_vars

\* The step starts a process or a container.
SpawnStep == Len(spawned') = Len(spawned) + 1

\* The warnings that a command was not found.
NotFoundWarnings(command) ==
    SelectSeq(warnings, LAMBDA w : w = Warning(command, "not found"))

\* The commands of the language of the run that is under way.
RunCommands == postprocessing_commands(PostprocessorLanguage(call.tpl_file_ext))

(***************************************************************************)
(* C23: in one process the warning that a command was not found is         *)
(* written at most once for a command name, by the first execution that    *)
(* does not find the binary; and a command whose execution failed is not   *)
(* executed again for that failure: every turn of the loop starts one      *)
(* process, the one of the command the loop is at, and moves on to the     *)
(* next command whatever the outcome.                                      *)
(***************************************************************************)
C23_WarnedOnceNeverRetried ==
    /\ [](\A i \in DOMAIN warnings :
             Len(NotFoundWarnings(warnings[i].command)) <= 1)
    /\ [](NOT_FOUND_LOGGED_FOR
             = {warnings[i].command :
                   i \in {j \in DOMAIN warnings : warnings[j].message = "not found"}})
    /\ [][\A command \in NOT_FOUND_LOGGED_FOR' \ NOT_FOUND_LOGGED_FOR :
             /\ SpawnStep
             /\ spawned'[Len(spawned')].command = command
             /\ warnings' = Append(warnings, Warning(command, "not found"))]_vars
    /\ [][SpawnStep =>
             /\ Unwrap(postprocessor').next = Unwrap(postprocessor).next + 1
             /\ spawned'[Len(spawned')].command
                   = RunCommands[Unwrap(postprocessor).next][1]
             /\ spawned'[Len(spawned')].args
                   = RunCommands[Unwrap(postprocessor).next][2]]_vars
    /\ [][Len(spawned') <= Len(spawned) + 1
             /\ (postprocessor' # None /\ postprocessor # None
                   => Unwrap(postprocessor').next >= Unwrap(postprocessor).next)]_vars

\* ruff has not been found three times in a row and one warning says so.
C23_Witness ==
    /\ Len(spawned) = 3
    /\ \A i \in 1..3 : spawned[i].command = "ruff" /\ spawned[i].runner = "Cli"
    /\ warnings = <<Warning("ruff", "not found")>>
    /\ NOT_FOUND_LOGGED_FOR = {"ruff"}

\* The commands that the run under way has executed, in order.
RunSpawned ==
    IF postprocessor = None THEN <<>>
    ELSE LET n == Unwrap(postprocessor).next - 1 IN
         [i \in 1..n |->
             <<spawned[Len(spawned) - n + i].command,
               spawned[Len(spawned) - n + i].args>>]

IsPrefix(s, t) == Len(s) <= Len(t) /\ s = SubSeq(t, 1, Len(s))

\* generate has returned or aborted.
RunEnded == pc \in {"generated", "failed", "panicked"}

\* Every output of the run is rendered and written.
AllWritten ==
    /\ Len(generated_paths) = Len(call.outputs)
    /\ \A i \in DOMAIN call.outputs :
          /\ generated_paths[i]
                = file_path(call.output_dir, call.outputs[i], call.tpl_file_ext)
          /\ generated_paths[i] \in fs

\* Python: lint-fix, then import sorting, then format.
PythonOrder ==
    call.tpl_file_ext = "py" /\ Len(RunSpawned) = 3 =>
        /\ RunSpawned[1] = <<"ruff", <<"check", "--no-respect-gitignore", "--fix">> >>
        /\ RunSpawned[2] = <<"ruff", <<"check", "--no-respect-gitignore",
                                      "--select", "I", "--fix">> >>
        /\ RunSpawned[3] = <<"ruff", <<"format", "--no-respect-gitignore">> >>

\* What C24 says of every step: a command starts only after every output
\* is written and only when postprocessing is not disabled, and no file
\* that exists is removed.
AfterWritingNoRollback ==
    /\ SpawnStep => AllWritten' /\ AllWritten /\ ~call.no_postprocess
    /\ fs \subseteq fs'

MaxTemplates == 1

\* FieldType::SchemaRef with the Type it names
FtSchemaRefInner(name, inner) == [id |-> "SchemaRef", name |-> name, inner |-> inner]

\* The closure update_fields of recursively_resolve_type: get(name).unwrap()
\* for every field that is a SchemaRef.
update_fields(fields, api_types) ==
    IF \E i \in DOMAIN fields :
          fields[i].type.id = "SchemaRef" /\ fields[i].type.name \notin DOMAIN api_types
    THEN Panic
    ELSE Ok([i \in DOMAIN fields |->
               IF fields[i].type.id = "SchemaRef"
               THEN [fields[i] EXCEPT !.type =
                        FtSchemaRefInner(@.name, Some(api_types[@.name]))]
               ELSE fields[i]])

\* The loop over the variants of an adjacently tagged struct enum.
resolve_variant(v, api_types) ==
    IF v.content.type = "Struct"
    THEN With(update_fields(v.content.fields, api_types), LAMBDA fields :
           IF ~IsOk(fields) THEN Panic
           ELSE Ok([v EXCEPT !.content.fields = fields.val]))
    ELSE IF IsNone(v.content.schema_ref) THEN Ok(v)
    ELSE IF Unwrap(v.content.schema_ref) \notin DOMAIN api_types THEN Panic
    ELSE Ok([name |-> v.name,
             content |-> [type |-> "Ref", schema_ref |-> v.content.schema_ref,
                          inner |-> Some(api_types[Unwrap(v.content.schema_ref)])]])

recursively_resolve_type(ty_name, api_types) ==
    IF ty_name \notin DOMAIN api_types THEN Panic
    ELSE With(api_types[ty_name], LAMBDA ty :
      CASE ty.data.kind = "struct" ->
             With(update_fields(ty.data.fields, api_types), LAMBDA fields :
               IF ~IsOk(fields) THEN Panic
               ELSE Ok([ty EXCEPT !.data.fields = fields.val]))
        [] ty.data.kind = "struct_enum" ->
             With([i \in DOMAIN ty.data.repr.variants |->
                      resolve_variant(ty.data.repr.variants[i], api_types)],
                  LAMBDA variants :
               IF \E i \in DOMAIN variants : ~IsOk(variants[i]) THEN Panic
               ELSE With(update_fields(ty.data.fields, api_types), LAMBDA fields :
                 IF ~IsOk(fields) THEN Panic
                 ELSE Ok([ty EXCEPT
                            !.data.repr.variants =
                                [i \in DOMAIN variants |-> variants[i].val],
                            !.data.fields = fields.val])))
        [] OTHER -> Ok(ty))

\* The samples of the operations from the operation i on, one for every
\* template.
RECURSIVE OperationSamples(_, _, _, _)
OperationSamples(operations, i, api_types, templates) ==
    IF i > Len(operations) \/ templates = 0 THEN Ok(<<>>)
    ELSE With(IF IsNone(operations[i].request_body_schema_name) THEN Ok(None)
              ELSE With(recursively_resolve_type(
                            Unwrap(operations[i].request_body_schema_name),
                            api_types),
                        LAMBDA ty : IF IsOk(ty) THEN Ok(Some(ty.val)) ELSE Panic),
              LAMBDA req_body_ty :
           IF ~IsOk(req_body_ty) THEN Panic
           ELSE With(OperationSamples(operations, i + 1, api_types, templates),
                     LAMBDA rest :
                  IF ~IsOk(rest) THEN Panic
                  ELSE Ok([t \in 1..templates |->
                              [operation |-> operations[i],
                               req_body_ty |-> req_body_ty.val]] \o rest.val)))

\* generate_sample for the resources from the resource i on: the samples
\* of the operations of a resource, then those of its subresources.
RECURSIVE generate_sample(_, _, _, _)
generate_sample(resource_list, i, api_types, templates) ==
    IF i > Len(resource_list) THEN Ok(<<>>)
    ELSE With(OperationSamples(resource_list[i].operations, 1, api_types, templates),
              LAMBDA own :
           IF ~IsOk(own) THEN Panic
           ELSE With(generate_sample(resource_list[i].subresources, 1, api_types,
                                     templates),
                     LAMBDA sub :
                  IF ~IsOk(sub) THEN Panic
                  ELSE With(generate_sample(resource_list, i + 1, api_types,
                                            templates),
                            LAMBDA rest :
                         IF ~IsOk(rest) THEN Panic
                         ELSE Ok(own.val \o sub.val \o rest.val))))

\* The documents samples are generated for: a request body named A, in a
\* subresource one named B, and pools with and without the schemas that
\* the types name.
SampleTrees ==
    {<<Resource("r", <<Operation(<<>>, Some("A"), None)>>, <<>>)>>,
     <<Resource("r", <<Operation(<<>>, None, Some("A"))>>, <<>>)>>,
     <<Resource("r", <<Operation(<<>>, Some("A"), None)>>,
                <<Resource("sub", <<Operation(<<>>, Some("B"), Some("A"))>>,
                           <<>>)>>)>>}

SampleSchemas ==
    {ObjectSchema(<< <<"f", StringSchema>> >>),
     ObjectSchema(<< <<"f", RefSchema("B")>> >>),
     ObjectSchema(<< <<"f", RefSchema("Data")>> >>),
     ObjectSchema(<< <<"f", ArraySchema(RefSchema("B"), None)>> >>),
     OneOfSchema(<<>>, <<ContentVariant("a", RefSchema("B")), UnitVariant("c")>>),
     OneOfSchema(<< <<"extra", RefSchema("B")>> >>,
                 <<ContentVariant("b",
                      ObjectSchema(<< <<"x", StringSchema>> >>))>>),
     [StringSchema EXCEPT !.enum_values = Some(<<JStr("x"), JStr("y")>>)]}

SamplePools ==
    {<<>>}
    \cup {<< <<"A", a>> >> : a \in SampleSchemas}
    \cup {<< <<"A", a>>, <<"B", b>> >> :
             a \in SampleSchemas,
             b \in {ObjectSchema(<< <<"f", StringSchema>> >>), SchemaBool(TRUE)}}
    \cup {<< <<"A", ObjectSchema(<< <<"f", RefSchema("Data")>> >>)>>,
             <<"Data", ObjectSchema(<< <<"f", StringSchema>> >>)>> >>}

\* generate_codesamples: Api::new on the paths and components of the
\* document.
StartSamples ==
    /\ pc = "idle"
    /\ \E pool \in SamplePools, res \in SampleTrees :
          Enter(pool, res, <<>>, "OnlyPublic")
    /\ UNCHANGED prev

\* generate_codesamples after Api::new: generate_sample for every
\* top-level resource.
GenerateSamples ==
    /\ pc = "done"
    /\ \E templates \in 0..MaxTemplates :
       \E samples \in {generate_sample(input.res, 1, types, templates)} :
          /\ call' = [fn |-> "generate_codesamples", templates |-> templates]
          /\ ret' = Some(samples)
          /\ pc' = IF IsOk(samples) THEN "sampled" ELSE "panicked"
    /\ UNCHANGED <<builder_vars, extraction_vars, postprocessing_vars, reader_vars>>

NextSamples == StartSamples \/ PopAndAddType \/ Return \/ GenerateSamples

SpecSamples == Init /\ [][NextSamples]_vars

(***************************************************************************)
(* C25: code-sample generation tolerates dangling references: when the     *)
(* schema named by the request body of an operation, by a SchemaRef field  *)
(* of a resolved type or by a $ref variant of a struct enum has no entry   *)
(* in the Type map, generate_sample completes without aborting.            *)
(***************************************************************************)
C25_SamplesTolerateDangling ==
    call # None /\ call.fn = "generate_codesamples" =>
        IsOk(Unwrap(ret)) /\ pc = "sampled"

(***************************************************************************)
(* cli_v2: extract_frontmatter_from_comment                                *)
(*                                                                         *)
(* A template is a sequence of characters; an index is a number of         *)
(* characters from the start of a string, as in the code.                  *)
(***************************************************************************)
MaxText == 2

Chars(str) == [i \in 1..Len(str) |-> SubSeq(str, i, i)]

Whitespace == {" ", "\n"}

\* str::trim_start
RECURSIVE trim_start(_)
trim_start(s) ==
    IF s # <<>> /\ Head(s) \in Whitespace THEN trim_start(Tail(s)) ELSE s

\* str::starts_with
starts_with(s, pat) == Len(s) >= Len(pat) /\ SubSeq(s, 1, Len(pat)) = pat

\* str::find: the index of the first match
find(s, pat) ==
    LET matches == {i \in 0..(Len(s) - Len(pat)) :
                       SubSeq(s, i + 1, i + Len(pat)) = pat}
    IN IF matches = {} THEN None
       ELSE Some(CHOOSE i \in matches : \A j \in matches : i <= j)

UnableToExtractFrontmatter(message) ==
    [tag |-> "err", error |-> "UnableToExtractFrontmatter", message |-> message]

\* The end searched as the first "#}" alone.
end_pos_of_hash_brace(remaining) ==
    IF IsNone(find(remaining, <<"#", "}">>))
    THEN UnableToExtractFrontmatter("No frontmatter end found")
    ELSE Ok(Unwrap(find(remaining, <<"#", "}">>)))

\* The match on (remaining.find("-#}"), remaining.find("#}"))
end_pos_of(remaining) ==
    LET whitespace_controlled == find(remaining, <<"-", "#", "}">>)
        not_whitespace_controlled == find(remaining, <<"#", "}">>)
    IN CASE IsNone(whitespace_controlled) /\ IsNone(not_whitespace_controlled) ->
              UnableToExtractFrontmatter("No frontmatter end found")
         [] IsSome(whitespace_controlled) /\ IsNone(not_whitespace_controlled) ->
              Ok(Unwrap(whitespace_controlled))
         [] IsNone(whitespace_controlled) /\ IsSome(not_whitespace_controlled) ->
              Ok(Unwrap(not_whitespace_controlled))
         [] OTHER ->
              Ok(IF Unwrap(whitespace_controlled) <= Unwrap(not_whitespace_controlled)
                 THEN Unwrap(whitespace_controlled)
                 ELSE Unwrap(not_whitespace_controlled))

extract_frontmatter_from_comment(template) ==
    LET trimmed == trim_start(template) IN
    IF ~starts_with(trimmed, <<"{", "#">>)
    THEN UnableToExtractFrontmatter("Frontmatter must be at start of file")
    ELSE LET start_len == IF starts_with(trimmed, <<"{", "#", "-">>) THEN 3 ELSE 2
             remaining == SubSeq(trimmed, start_len + 1, Len(trimmed))
             end_pos == end_pos_of(remaining)
         IN IF ~IsOk(end_pos) THEN end_pos
            ELSE Ok(SubSeq(remaining, 1, end_pos.val))

\* Templates: leading text, an opening delimiter, a text of at most MaxText
\* characters, a closing delimiter and what follows the comment.
TextChars == {"a", "-", "#", "}", "{", " "}

Texts == UNION {[1..n -> TextChars] : n \in 0..MaxText}

Templates ==
    {Chars(lead) \o Chars(open) \o text \o Chars(close) \o Chars(rest) :
        lead \in {"", " \n", "a"},
        open \in {"{#", "{#-", ""},
        text \in Texts,
        close \in {"#}", "-#}", ""},
        rest \in {"", "\n{# #}", "{#- -#}", "-#}"}}

InitFrontmatter ==
    /\ Idle
    /\ call \in [fn : {"extract_frontmatter_from_comment"}, template : Templates]
    /\ ret = None

ExtractFrontmatter ==
    /\ call # None /\ call.fn = "extract_frontmatter_from_comment"
    /\ Returns(extract_frontmatter_from_comment(call.template))

NextFrontmatter == ExtractFrontmatter

SpecFrontmatter == InitFrontmatter /\ [][NextFrontmatter]_vars

\* The template without its leading whitespace.
Unindented(template) ==
    SubSeq(template,
           1 + Cardinality({i \in DOMAIN template :
                               \A j \in 1..i : template[j] \in Whitespace}),
           Len(template))

\* The template starts, after leading whitespace, with a comment.
StartsWithComment(template) ==
    /\ Len(Unindented(template)) >= 2
    /\ Unindented(template)[1] = "{" /\ Unindented(template)[2] = "#"

\* The length of the opening delimiter: {#- or {#.
OpeningLen(template) ==
    IF Len(Unindented(template)) >= 3 /\ Unindented(template)[3] = "-" THEN 3 ELSE 2

\* The places after the opening delimiter where a closing delimiter
\* starts: a #} not preceded by a dash, or a -#}.
ClosingStarts(template) ==
    LET t == Unindented(template) IN
    {i \in (OpeningLen(template) + 1)..(Len(t) - 1) :
        \/ /\ t[i] = "#" /\ t[i + 1] = "}"
           /\ ~(i - 1 > OpeningLen(template) /\ t[i - 1] = "-")
        \/ /\ i + 2 <= Len(t)
           /\ t[i] = "-" /\ t[i + 1] = "#" /\ t[i + 2] = "}"}

\* The text strictly between the opening delimiter and the first closing
\* delimiter.
TextBetween(template) ==
    LET first == CHOOSE i \in ClosingStarts(template) :
                    \A j \in ClosingStarts(template) : i <= j
    IN SubSeq(Unindented(template), OpeningLen(template) + 1, first - 1)

(***************************************************************************)
(* C26: extract_frontmatter_from_comment returns exactly the text strictly *)
(* between the opening delimiter of the first comment of the template ({#  *)
(* or {#-, after leading whitespace) and the first closing delimiter that  *)
(* follows it (#} or -#}), without the whitespace-control dashes, for all  *)
(* four combinations of the delimiters, whatever comments follow; a        *)
(* template that does not start with a comment or has no closing delimiter *)
(* gives an UnableToExtractFrontmatter error.                              *)
(***************************************************************************)
C26_TextBetweenDelimiters ==
    call # None /\ call.fn = "extract_frontmatter_from_comment" /\ IsSome(ret) =>
        IF StartsWithComment(call.template) /\ ClosingStarts(call.template) # {}
        THEN Unwrap(ret) = Ok(TextBetween(call.template))
        ELSE /\ ~IsOk(Unwrap(ret))
             /\ Unwrap(ret).error = "UnableToExtractFrontmatter"

\* A comment with both whitespace-control dashes, after leading whitespace
\* and followed by another comment, has given the text between its
\* delimiters.
C26_Witness ==
    /\ call # None /\ call.fn = "extract_frontmatter_from_comment"
    /\ call.template = Chars(" \n{#-a -#}\n{# #}")
    /\ ret = Some(Ok(<<"a", " ">>))

(***************************************************************************)
(* preprocess_spec: add_ee_prefix                                          *)
(*                                                                         *)
(* The document is its component schemas and its paths, a path item one    *)
(* optional operation for each HTTP method.  prefix_op_id is not in the    *)
(* sources at hand; the prefixed ID is the ID with a mark at its head.     *)
(***************************************************************************)
MaxPaths == 1

HttpMethods == {"get", "put", "post", "delete", "options", "head", "patch", "trace"}

\* ReferenceOr::Reference with its reference string
ReferenceTo(r) == [ref |-> TRUE, reference |-> r]

prefix_op_id(op_id) == <<"prefix_op_id">> \o op_id

prefix_str(v) == "Ee" \o v

\* str::replace of the component prefix in a $ref string
prefix_ref(v) ==
    IF v.prefix = ComponentsPrefix THEN [v EXCEPT !.name = "Ee" \o @] ELSE v

\* add_prefix_to_schema and add_prefix_to_schema_obj; the iterator over
\* the items of SingleOrVec::Vec is dropped without being run.
RECURSIVE add_prefix_to_schema(_)
add_prefix_to_schema(json_schema) ==
    IF json_schema.sk = "bool" THEN json_schema
    ELSE LET with_ref ==
                 IF IsSome(json_schema.reference)
                 THEN [json_schema EXCEPT
                          !.reference = Some(prefix_ref(Unwrap(json_schema.reference)))]
                 ELSE json_schema
             with_obj ==
                 IF IsSome(with_ref.object)
                 THEN LET obj == Unwrap(with_ref.object) IN
                      [with_ref EXCEPT !.object =
                          Some([obj EXCEPT !.properties =
                                   [i \in DOMAIN obj.properties |->
                                       <<obj.properties[i][1],
                                         add_prefix_to_schema(obj.properties[i][2])>>]])]
                 ELSE with_ref
         IN IF IsSome(with_obj.array) /\ IsSome(Unwrap(with_obj.array).items)
               /\ IsSingle(Unwrap(Unwrap(with_obj.array).items))
            THEN LET array == Unwrap(with_obj.array) IN
                 [with_obj EXCEPT !.array =
                     Some([array EXCEPT !.items =
                              Some(Single(add_prefix_to_schema(
                                              Unwrap(array.items).single)))])]
            ELSE with_obj

\* rename_keys with prefix_str, then the schemas
add_prefix_to_components(components) ==
    [schemas |-> [i \in DOMAIN components.schemas |->
                     <<prefix_str(components.schemas[i][1]),
                       add_prefix_to_schema(components.schemas[i][2])>>]]

\* The schemas of a content map
add_prefix_to_content(content) ==
    [i \in DOMAIN content |->
        <<content[i][1],
          [content[i][2] EXCEPT !.schema =
              IF IsSome(@) THEN Some(add_prefix_to_schema(Unwrap(@))) ELSE @]>>]

\* A request body or a response
add_prefix_to_body(body) ==
    IF body.ref THEN ReferenceTo(prefix_ref(body.reference))
    ELSE Item([body.item EXCEPT !.content = add_prefix_to_content(@)])

add_prefix_to_param(param) ==
    IF param.ref THEN ReferenceTo(prefix_ref(param.reference))
    ELSE IF param.item.format.is_schema
    THEN Item([param.item EXCEPT !.format.json_schema = add_prefix_to_schema(@)])
    ELSE Item([param.item EXCEPT !.format.content = add_prefix_to_content(@)])

add_prefix_to_op(op) ==
    [operation_id |-> IF IsSome(op.operation_id)
                      THEN Some(prefix_op_id(Unwrap(op.operation_id)))
                      ELSE None,
     x_hidden |-> op.x_hidden,
     request_body |-> IF IsSome(op.request_body)
                      THEN Some(add_prefix_to_body(Unwrap(op.request_body)))
                      ELSE None,
     responses |->
        IF IsSome(op.responses)
        THEN Some([Unwrap(op.responses) EXCEPT !.responses =
                      [i \in DOMAIN @ |-> <<@[i][1], add_prefix_to_body(@[i][2])>>]])
        ELSE None,
     parameters |-> [i \in DOMAIN op.parameters |->
                        add_prefix_to_param(op.parameters[i])]]

\* The methods whose operation add_ee_prefix visits, and the loop over the
\* paths with visited standing for that set.
VisitedMethods == {"post", "get", "put", "patch", "head", "options", "trace"}

EveryMethod == HttpMethods

add_prefix_to_paths(paths, visited) ==
    IF \E i \in DOMAIN paths : paths[i][2].ref THEN Panic
    ELSE Ok([i \in DOMAIN paths |->
               <<paths[i][1],
                 Item([m \in HttpMethods |->
                          IF m \in visited /\ IsSome(paths[i][2].item[m])
                          THEN Some(add_prefix_to_op(Unwrap(paths[i][2].item[m])))
                          ELSE paths[i][2].item[m]])>>])

add_ee_prefix(spec) ==
    With(IF IsSome(spec.paths)
         THEN add_prefix_to_paths(Unwrap(spec.paths), VisitedMethods)
         ELSE Ok(<<>>),
         LAMBDA paths :
      IF ~IsOk(paths) THEN Panic
      ELSE Ok([components |-> IF IsSome(spec.components)
                              THEN Some(add_prefix_to_components(
                                            Unwrap(spec.components)))
                              ELSE None,
               paths |-> IF IsSome(spec.paths) THEN Some(paths.val) ELSE None]))

\* Documents: a few component maps, and up to MaxPaths paths, each with
\* one operation under one method.
TupleSchema(items) ==
    [WithType(DefaultSchemaObject, "array") EXCEPT
        !.array = Some([items |-> Some(Vec(items)), additional_items |-> None,
                        unique_items |-> None])]

EeComponents ==
    {None,
     Some([schemas |-> << <<"A", ObjectSchema(<< <<"f", StringSchema>> >>)>> >>]),
     Some([schemas |-> << <<"B", ObjectSchema(<< <<"f", RefSchema("A")>> >>)>>,
                          <<"A", ArraySchema(RefSchema("B"), None)>> >>]),
     Some([schemas |-> << <<"A", ObjectSchema(<<
                                    <<"f", ObjectSchema(<< <<"g", RefSchema("A")>> >>)>>,
                                    <<"h", ForeignRefSchema("A")>> >>)>> >>]),
     Some([schemas |-> << <<"A", SchemaBool(TRUE)>>,
                          <<"B", TupleSchema(<<RefSchema("A"), StringSchema>>)>> >>])}

EeOperations ==
    {OpenapiOperation(Some(BaseId), FALSE, <<>>, None, OkResponses),
     OpenapiOperation(None, FALSE, <<>>, None, None),
     OpenapiOperation(Some(BaseId), FALSE,
         <<Parameter("query", "form", "q", FALSE, ParameterSchema(RefSchema("A"))),
           ReferenceTo(Ref("#/components/parameters/", "P")),
           Parameter("query", "form", "c", FALSE,
                     [is_schema |-> FALSE, content |-> JsonContent(RefSchema("A"))])>>,
         Some(Item(RequestBody(JsonContent(RefSchema("A")), TRUE))),
         Some(Responses(<< <<Code(200), JsonResponse("A")>>,
                           <<Code(404), ReferenceTo(Ref(ComponentsPrefix, "B"))>> >>,
                        None))),
     OpenapiOperation(Some(BaseId), FALSE, <<>>,
         Some(ReferenceTo(Ref("#/components/requestBodies/", "A"))), OkResponses)}

PathItem(method, op) ==
    Item([m \in HttpMethods |-> IF m = method THEN Some(op) ELSE None])

EePathItems ==
    {PathItem(m, op) : m \in HttpMethods, op \in EeOperations}
    \cup {ReferenceTo(Ref("#/components/pathItems/", "P"))}

EePathNames == <<"/a", "/b", "/c">>

EePaths ==
    {None}
    \cup UNION {{Some([i \in 1..n |-> <<EePathNames[i], items[i]>>]) :
                   items \in [1..n -> EePathItems]} : n \in 0..MaxPaths}

InitEePrefix ==
    /\ Idle
    /\ call \in [fn : {"add_ee_prefix"},
                 spec : [components : EeComponents, paths : EePaths]]
    /\ ret = None

AddEePrefix ==
    /\ call # None /\ call.fn = "add_ee_prefix"
    /\ Returns(add_ee_prefix(call.spec))

NextEePrefix == AddEePrefix

SpecEePrefix == InitEePrefix /\ [][NextEePrefix]_vars

\* The $ref strings of a schema: its own, those of its properties at every
\* depth, and those of its array and tuple items.
RECURSIVE SchemaRefs(_)
SchemaRefs(s) ==
    IF s.sk = "bool" THEN {}
    ELSE collect(s.reference)
         \cup (IF IsSome(s.object)
               THEN UNION {SchemaRefs(Unwrap(s.object).properties[i][2]) :
                              i \in DOMAIN Unwrap(s.object).properties}
               ELSE {})
         \cup (IF IsSome(s.array) /\ IsSome(Unwrap(s.array).items)
               THEN LET items == Unwrap(Unwrap(s.array).items) IN
                    IF IsSingle(items) THEN SchemaRefs(items.single)
                    ELSE UNION {SchemaRefs(items.vec[i]) : i \in DOMAIN items.vec}
               ELSE {})

ContentRefs(content) ==
    UNION {IF IsSome(content[i][2].schema)
           THEN SchemaRefs(Unwrap(content[i][2].schema)) ELSE {} :
              i \in DOMAIN content}

BodyRefs(body) ==
    IF body.ref THEN {body.reference} ELSE ContentRefs(body.item.content)

\* The $ref strings of an operation: parameters, request body, responses.
OperationRefs(op) ==
    UNION {IF op.parameters[i].ref THEN {op.parameters[i].reference}
           ELSE IF op.parameters[i].item.format.is_schema
           THEN SchemaRefs(op.parameters[i].item.format.json_schema)
           ELSE ContentRefs(op.parameters[i].item.format.content) :
              i \in DOMAIN op.parameters}
    \cup (IF IsSome(op.request_body) THEN BodyRefs(Unwrap(op.request_body)) ELSE {})
    \cup (IF IsSome(op.responses)
          THEN UNION {BodyRefs(Unwrap(op.responses).responses[i][2]) :
                         i \in DOMAIN Unwrap(op.responses).responses}
          ELSE {})

\* The path items of a document, its operations, and its component keys.
DocPathItems(spec) ==
    IF IsNone(spec.paths) THEN <<>>
    ELSE [i \in DOMAIN Unwrap(spec.paths) |-> Unwrap(spec.paths)[i][2].item]

DocOperations(spec) ==
    UNION {{Unwrap(DocPathItems(spec)[i][m]) :
               m \in {n \in HttpMethods : IsSome(DocPathItems(spec)[i][n])}} :
              i \in DOMAIN DocPathItems(spec)}

ComponentKeys(spec) ==
    IF IsNone(spec.components) THEN <<>>
    ELSE [i \in DOMAIN Unwrap(spec.components).schemas |->
             Unwrap(spec.components).schemas[i][1]]

DocRefs(spec) ==
    (IF IsNone(spec.components) THEN {}
     ELSE UNION {SchemaRefs(Unwrap(spec.components).schemas[i][2]) :
                    i \in DOMAIN Unwrap(spec.components).schemas})
    \cup UNION {OperationRefs(op) : op \in DocOperations(spec)}

Resolves(r, spec) ==
    r.prefix = ComponentsPrefix /\ r.name \in collect(ComponentKeys(spec))

AddEePrefixDone ==
    call # None /\ call.fn = "add_ee_prefix" /\ IsSome(ret) /\ IsOk(Unwrap(ret))

KeysPrefixed(in, out) ==
    ComponentKeys(out) = [i \in DOMAIN ComponentKeys(in) |-> "Ee" \o ComponentKeys(in)[i]]

OperationIdsPrefixed(in, out) ==
    \A i \in DOMAIN DocPathItems(in), m \in HttpMethods :
        LET before == DocPathItems(in)[i][m]
            after == DocPathItems(out)[i][m]
        IN IsSome(before) /\ IsSome(Unwrap(before).operation_id)
           => /\ IsSome(after)
              /\ Unwrap(after).operation_id
                     = Some(prefix_op_id(Unwrap(Unwrap(before).operation_id)))

RefsRewritten(in, out) ==
    /\ DocRefs(out) = {IF r.prefix = ComponentsPrefix
                       THEN Ref(ComponentsPrefix, "Ee" \o r.name) ELSE r :
                          r \in DocRefs(in)}
    /\ \A r \in DocRefs(in) :
          Resolves(r, in) => Resolves(Ref(ComponentsPrefix, "Ee" \o r.name), out)

\* C27: after add_ee_prefix every component schema key X is EeX, the
\* operationId of every operation under every HTTP method of every path is
\* prefixed, and every $ref to #/components/schemas/X, in component schemas
\* (array items, tuple items and nested properties included), parameters,
\* request bodies and responses, reads #/components/schemas/EeX, so that
\* every reference that resolved before resolves to the renamed component.
C27_PrefixConsistent ==
    AddEePrefixDone
    => /\ KeysPrefixed(call.spec, Unwrap(ret).val)
       /\ OperationIdsPrefixed(call.spec, Unwrap(ret).val)
       /\ RefsRewritten(call.spec, Unwrap(ret).val)

(***************************************************************************)
(* C28: the frontier never holds a name that is a key of the Type map, and *)
(* an iteration never leaves the name it converts in the frontier: a       *)
(* schema that references itself is not queued again.                      *)
(***************************************************************************)
C28_FrontierDisjointFromTypes ==
    /\ [](extra_components \cap DOMAIN types = {})
    /\ [][Iteration => Current \notin extra_components']_vars

\* A type that references itself was converted, and later a type that
\* references it; neither put its name back into the frontier.
C28_Witness ==
    \E a, b \in DOMAIN types :
       /\ a # b
       /\ a \in Type_referenced_components(types[a])
       /\ a \in Type_referenced_components(types[b])
       /\ \E i, j \in DOMAIN popped : i < j /\ popped[i] = a /\ popped[j] = b
       /\ a \notin extra_components

(***************************************************************************)
(* impl FromIterator<Api> for Api (src/src/api/mod.rs): the Apis of an     *)
(* iterator are merged, one after the other, into Api::default().          *)
(***************************************************************************)
Api_default == [resources |-> EmptyMap, types |-> EmptyMap]

\* BTreeMap::extend
extend(map, other) ==
    [k \in DOMAIN map \cup DOMAIN other |->
        IF k \in DOMAIN other THEN other[k] ELSE map[k]]

\* The loop of from_iter from the item i on.
RECURSIVE from_iter_from(_, _, _)
from_iter_from(iter, i, acc) ==
    IF i > Len(iter) THEN Ok(acc)
    ELSE With(merge_resources(acc.resources, iter[i].resources), LAMBDA m :
         IF ~IsOk(m) THEN Panic
         ELSE from_iter_from(iter, i + 1,
                             [resources |-> m.val,
                              types |-> extend(acc.types, iter[i].types)]))

from_iter(iter) == from_iter_from(iter, 1, Api_default)

\* Apis to merge: a resource "a" that may hold a subresource "b", and a
\* resource "b"; the names are the dash-joined key paths, or a name edited
\* by hand.
MergeOp(name) == Operation(<<>>, None, Some(name))

MergeSubresources ==
    {EmptyMap}
    \cup {[k \in {"b"} |-> Resource(name, ops, EmptyMap)] :
             name \in {"a-b", "x"}, ops \in {<<>>, <<MergeOp("B")>>}}

MergeResources ==
    {[k \in K |-> IF k = "a" THEN a ELSE Resource("b", <<MergeOp("A")>>, EmptyMap)] :
        K \in SUBSET {"a", "b"},
        a \in {Resource(name, ops, sub) :
                  name \in {"a", "x"},
                  ops \in {<<MergeOp("A")>>, <<MergeOp("B")>>},
                  sub \in MergeSubresources}}

MergeTypes ==
    {EmptyMap,
     [n \in {"A"} |-> Type_from_schema("A", ObjectSchema(<< <<"f", StringSchema>> >>)).val]}

MergeApis ==
    {[resources |-> EmptyMap, types |-> tys] : tys \in MergeTypes}
    \cup [resources : MergeResources, types : {EmptyMap}]

InitMerge ==
    /\ Idle
    /\ call \in [fn : {"from_iter"},
                 iter : UNION {[1..n -> MergeApis] : n \in 0..MaxApis}]
    /\ ret = None

FromIter ==
    /\ call # None /\ call.fn = "from_iter"
    /\ Returns(from_iter(call.iter))

NextMerge == FromIter

SpecMerge == InitMerge /\ [][NextMerge]_vars

\* The operation lists the inputs hold at a key path, one after the other
\* from the input i on.
RECURSIVE InputOperationsAt(_, _, _)
InputOperationsAt(iter, path, i) ==
    IF i > Len(iter) THEN <<>>
    ELSE OperationsAt(iter[i].resources, path)
         \o InputOperationsAt(iter, path, i + 1)

InputKeyPaths(iter) == UNION {TreePaths(iter[i].resources) : i \in DOMAIN iter}

\* Two inputs store different names at one key path.
NameClash(iter) ==
    \E i, j \in DOMAIN iter :
       \E p \in TreePaths(iter[i].resources) \cap TreePaths(iter[j].resources) :
          NodeAt(iter[i].resources, p).name # NodeAt(iter[j].resources, p).name

\* The iterator with Api::default() put before its item i.
WithEmptyAt(iter, i) ==
    SubSeq(iter, 1, i - 1) \o <<Api_default>> \o SubSeq(iter, i, Len(iter))

FromIterDone == call # None /\ call.fn = "from_iter" /\ IsSome(ret)

(***************************************************************************)
(* C29: merging a sequence of Apis loses and duplicates no operation.  The *)
(* merge aborts exactly when two inputs store different names at the same  *)
(* key path; otherwise the merged tree has a node at a key path exactly    *)
(* when some input has one, and the operations of a merged node are the    *)
(* operation lists the inputs hold at that path, concatenated in input     *)
(* order.  An empty Api anywhere among the inputs changes nothing.         *)
(***************************************************************************)
C29_MergeKeepsEveryOperation ==
    FromIterDone
    => /\ IsOk(Unwrap(ret)) <=> ~NameClash(call.iter)
       /\ IsOk(Unwrap(ret))
          => /\ TreePaths(Unwrap(ret).val.resources) = InputKeyPaths(call.iter)
             /\ \A p \in InputKeyPaths(call.iter) :
                   NodeAt(Unwrap(ret).val.resources, p).operations
                      = InputOperationsAt(call.iter, p, 1)
       /\ \A i \in 1..(Len(call.iter) + 1) :
             from_iter(WithEmptyAt(call.iter, i)) = Unwrap(ret)

\* Two Apis that both hold operations at the key path a.b were merged.
C29_Witness ==
    /\ FromIterDone
    /\ IsOk(Unwrap(ret))
    /\ Len(call.iter) >= 2
    /\ \A i \in 1..2 :
          /\ <<"a", "b">> \in TreePaths(call.iter[i].resources)
          /\ NodeAt(call.iter[i].resources, <<"a", "b">>).operations # <<>>
    /\ call.iter[1].resources["a"].operations # call.iter[2].resources["a"].operations
    /\ call.iter[1].resources["a"].operations # <<>>
    /\ call.iter[2].resources["a"].operations # <<>>
    /\ "b" \in DOMAIN call.iter[1].resources \ DOMAIN call.iter[2].resources

(***************************************************************************)
(* util: parse_frontmatter.  The input is the sequence of its lines, each  *)
(* with its bytes (the line ending included, which only the last line may  *)
(* lack) and whether they are valid UTF-8; cursor counts the lines read.   *)
(* The lines of the inputs are shorter than the 256 bytes of take.         *)
(***************************************************************************)
MaxLines == 3
TakeLimit == 256

Line(str) == [bytes |-> Chars(str), utf8 |-> TRUE]
InvalidLine == [bytes |-> Chars("\n"), utf8 |-> FALSE]

\* BufRead::read_line on a reader that may read limit bytes at most: Ok
\* with the bytes appended to buf (none at the end of the input), or the
\* error InvalidData.
read_line(lines, pos, into, limit) ==
    IF pos >= Len(lines) THEN [tag |-> "ok", n |-> 0, buf |-> into, pos |-> pos]
    ELSE IF ~lines[pos + 1].utf8
    THEN [tag |-> "err", kind |-> "InvalidData", buf |-> into, pos |-> pos + 1]
    ELSE With(IF Len(lines[pos + 1].bytes) <= limit THEN lines[pos + 1].bytes
              ELSE SubSeq(lines[pos + 1].bytes, 1, limit),
              LAMBDA bytes :
                 [tag |-> "ok", n |-> Len(bytes), buf |-> into \o bytes,
                  pos |-> pos + 1])

\* str::trim_end
RECURSIVE trim_end(_)
trim_end(s) ==
    IF s # <<>> /\ s[Len(s)] \in Whitespace
    THEN trim_end(SubSeq(s, 1, Len(s) - 1))
    ELSE s

\* str::lines().next_back(): the last line, without its line ending
last_line(s) ==
    IF s = <<>> THEN None
    ELSE With(IF s[Len(s)] = "\n" THEN SubSeq(s, 1, Len(s) - 1) ELSE s,
              LAMBDA body :
         With({i \in DOMAIN body : body[i] = "\n"}, LAMBDA breaks :
              IF breaks = {} THEN Some(body)
              ELSE Some(SubSeq(body,
                               (CHOOSE i \in breaks : \A j \in breaks : j <= i) + 1,
                               Len(body)))))

\* str::rfind: the index of the last match
rfind(s, pat) ==
    LET matches == {i \in 0..(Len(s) - Len(pat)) :
                       SubSeq(s, i + 1, i + Len(pat)) = pat}
    IN IF matches = {} THEN None
       ELSE Some(CHOOSE i \in matches : \A j \in matches : j <= i)

Delimiter == <<"+", "+", "+">>

\* The test that ends the loop.
found_closing(s) ==
    IsSome(last_line(s)) /\ trim_end(Unwrap(last_line(s))) = Delimiter

\* str::split('\n')
RECURSIVE split_lines(_, _, _)
split_lines(s, i, current) ==
    IF i > Len(s) THEN <<current>>
    ELSE IF s[i] = "\n" THEN <<current>> \o split_lines(s, i + 1, <<>>)
    ELSE split_lines(s, i + 1, Append(current, s[i]))

\* toml::from_str(&buf).context("parsing frontmatter") on the lines the
\* inputs are made of: blank lines and at most one `a = 1` parse.
toml_from_str(s) ==
    With(SelectSeq(split_lines(s, 1, <<>>), LAMBDA l : trim_end(l) # <<>>),
         LAMBDA entries :
       IF /\ Len(entries) <= 1
          /\ \A i \in DOMAIN entries : trim_end(entries[i]) = Chars("a = 1")
       THEN Ok([frontmatter |-> entries])
       ELSE [tag |-> "err", error |-> "parsing frontmatter"])

T_default == Ok([frontmatter |-> <<>>])

\* Inputs of at most MaxLines lines.
FullLines ==
    {Line("+++\n"), Line("+++ \n"), Line("a = 1\n"), Line("\n"), InvalidLine}

OpenLines == {Line("+++"), Line("a = 1")}

ReaderInputs ==
    UNION {[1..n -> FullLines] : n \in 0..MaxLines}
    \cup UNION {{Append(head, last) : head \in [1..(n - 1) -> FullLines],
                                      last \in OpenLines} : n \in 1..MaxLines}

InitParse ==
    /\ Idle
    /\ call \in [fn : {"parse_frontmatter"}, input : ReaderInputs]
    /\ ret = None

\* parse_frontmatter up to its loop: the first line is read through
\* take(256); bail_default rewinds the input and returns the default.
ReadFirstLine ==
    /\ pc = "idle"
    /\ call # None /\ call.fn = "parse_frontmatter"
    /\ ret = None
    /\ \E r \in {read_line(call.input, 0, <<>>, TakeLimit)} :
          IF r.tag = "err" \/ trim_end(r.buf) # Delimiter
          THEN /\ cursor' = 0
               /\ ret' = Some(T_default)
               /\ UNCHANGED pc
          ELSE /\ cursor' = r.pos
               /\ pc' = "frontmatter"
               /\ UNCHANGED ret
    /\ buf' = <<>>
    /\ UNCHANGED <<builder_vars, extraction_vars, postprocessing_vars, call>>

\* One turn of the loop: a line is read into buf; an error returns, a last
\* line that is the delimiter ends the loop and the text before it is
\* parsed, anything else goes round again.  At the end of the input
\* read_line returns Ok(0) and appends nothing: the turn leaves buf and
\* cursor as they are, and the loop takes the same turn again.
ReadLine ==
    /\ pc = "frontmatter"
    /\ \E r \in {read_line(call.input, cursor, buf, Len(buf) + TakeLimit)} :
          /\ cursor' = r.pos
          /\ IF r.tag = "err"
             THEN /\ ret' = Some([tag |-> "err", error |-> r.kind])
                  /\ buf' = <<>>
                  /\ pc' = "idle"
             ELSE IF found_closing(r.buf)
             THEN /\ ret' = Some(toml_from_str(
                                     SubSeq(r.buf, 1, Unwrap(rfind(r.buf, Delimiter)))))
                  /\ buf' = <<>>
                  /\ pc' = "idle"
             ELSE /\ buf' = r.buf
                  /\ UNCHANGED <<pc, ret>>
    /\ UNCHANGED <<builder_vars, extraction_vars, postprocessing_vars, call>>

NextParse == ReadFirstLine \/ ReadLine

SpecParse == InitParse /\ [][NextParse]_vars

\* The function runs on: a turn of the loop that can be taken is taken.
SpecParseFair == SpecParse /\ WF_vars(ReadFirstLine) /\ WF_vars(ReadLine)

\* The input opens with the delimiter; a later line is the delimiter or
\* is not valid UTF-8.
Opens(lines) ==
    /\ lines # <<>>
    /\ lines[1].utf8
    /\ trim_end(lines[1].bytes) = Delimiter

Closes(lines) ==
    \E i \in 2..Len(lines) :
       ~lines[i].utf8 \/ trim_end(lines[i].bytes) = Delimiter

(***************************************************************************)
(* C30: parse_frontmatter terminates on every finite input: whatever the   *)
(* input, the call returns, with a result or an error, also when the       *)
(* first line is the delimiter and no closing delimiter follows.           *)
(***************************************************************************)
C30_ParseFrontmatterReturns == <>IsSome(ret)

====
